---------------------------- MODULE Spec2Model ----------------------------
(***************************************************************************)
(* A model of backend/services/melody_service.py: the scale constraint,    *)
(* the rhythm quantizer, the seed generator, the constrained generation    *)
(* loop around the predictive model, the demo generator, the MIDI composer *)
(* and generate_melody, the operation that ties them together.             *)
(*                                                                         *)
(* Times are exact rationals in seconds (records [n, d] in lowest terms),  *)
(* so 0.4 is 2/5 and the tempo scale 120 / max(tempo, 1) is exact.         *)
(***************************************************************************)
EXTENDS Integers, Sequences, FiniteSets, TLC

VARIABLES
    \* --- MusicTheory.constrain_to_scale applied to drawn inputs ---
    ct_pitch,       \* the pitch argument
    ct_scale,       \* the scale argument (a list of pitch classes)
    ct_calls,       \* how many calls have returned
    ct_once,        \* constrain_to_scale(pitch, scale) once ct_calls >= 1
    ct_twice,       \* constrain_to_scale of that result once ct_calls = 2
    \* --- MusicTheory.quantize_duration applied to a drawn value ---
    qd_value,       \* the value argument, in seconds
    qd_calls,       \* how many calls have returned
    qd_quantized,   \* quantize_duration(value, 0.125) once qd_calls = 1
    \* --- two runs of _generate_with_constraints on one prediction trace ---
    pr_pc,          \* "loop" | "returned" | "raised"
    pr_args,        \* [total_notes, genre, temperature, cfg, oracle]
    pr_tempo,       \* the tempo argument of run 1 and of run 2
    pr_run,         \* the locals of run 1 and of run 2
    \* --- one generate_melody request on the service ---
    pc,             \* where the request is
    service,        \* MelodyServiceV2's fields: model, vocab_size, max_step, max_duration
    args,           \* generate_melody's arguments: tempo, genre, bars, temperature
    num_notes,      \* generate_melody's local
    input_seed,     \* generate_melody's local input_notes: the seed array (<<>> before)
    gen,            \* the locals of _generate_with_constraints (<<>> when not alive)
    demo,           \* the locals of _generate_demo_melody (<<>> when not alive)
    notes,          \* generate_melody's local: the note list
    midi,           \* the locals of notes_to_midi_base64 (<<>> when not alive)
    midi_base64,    \* how notes_to_midi_base64 ended: [raised, value]
    audio_url,      \* what _create_audio returned
    result,         \* what generate_melody returned (<<>> before it returns)
    np_random,      \* the state of numpy's process-wide generator
    trace,          \* what happened: oracle calls, exceptions caught, injected errors
    \* --- requests served at the same time by the worker threads ---
    cc_req,         \* per melody thread: [pc, genre, num_notes, demo, started]
    cc_classify,    \* where the thread serving a classification request is
    \* --- SeedGenerator.generate_smart_seed applied to drawn arguments ---
    sg_pc,          \* "call" | "returned"
    sg_args,        \* [genre, seq_length, vocab_size, max_step, max_duration]
    sg_seed         \* what the call returned (<<>> before it returns)

ctVars == <<ct_pitch, ct_scale, ct_calls, ct_once, ct_twice>>

qdVars == <<qd_value, qd_calls, qd_quantized>>

prVars == <<pr_pc, pr_args, pr_tempo, pr_run>>

rqVars == <<pc, service, args, num_notes, input_seed, gen, demo, notes, midi, midi_base64,
            audio_url, result, np_random, trace>>

\* the request's own state: rqVars without the process-wide generator
rqLocals == <<pc, service, args, num_notes, input_seed, gen, demo, notes, midi, midi_base64,
              audio_url, result, trace>>

ccVars == <<cc_req, cc_classify>>

sgVars == <<sg_pc, sg_args, sg_seed>>

vars == <<ctVars, prVars, rqVars, qdVars, ccVars, sgVars>>

-----------------------------------------------------------------------------
(* Bounds of the model *)

\* pitches are drawn from -PitchOver .. 127 + PitchOver
PitchOver == 2

\* _generate_with_constraints is called with total_notes in 0 .. MaxTotalNotes
MaxTotalNotes == 3

\* numpy's generator starts a request in one of the states 0 .. MaxSeed
MaxSeed == 2

\* a stubbed run of _generate_with_constraints makes up to SEQ_LENGTH +
\* MaxExtraNotes notes
MaxExtraNotes == 2

\* a request served side by side with another makes 1 .. MaxConcurrentNotes notes
MaxConcurrentNotes == 2

\* quantize_duration is given the values 0, 1/400, .. MaxValueSteps/400 seconds
MaxValueSteps == 200

\* the longest seed asked of generate_smart_seed
MaxSeqLength == 26

\* the longest melody handed to notes_to_midi_base64 on its own
MaxComposeNotes == 3

-----------------------------------------------------------------------------
(* Exact rational arithmetic *)

Abs(x) == IF x < 0 THEN -x ELSE x

Min2(a, b) == IF a <= b THEN a ELSE b

Max2(a, b) == IF a >= b THEN a ELSE b

RECURSIVE Gcd(_, _)
Gcd(a, b) == IF b = 0 THEN a ELSE Gcd(b, a % b)

\* the rational n/d (d > 0) in lowest terms
Rat(n, d) ==
    LET g == Gcd(Abs(n), d)
    IN  [n |-> n \div g, d |-> d \div g]

RInt(k) == [n |-> k, d |-> 1]

RAdd(a, b) == Rat(a.n * b.d + b.n * a.d, a.d * b.d)

RMul(a, b) == Rat(a.n * b.n, a.d * b.d)

\* a / b for b > 0
RDiv(a, b) == Rat(a.n * b.d, a.d * b.n)

RLe(a, b) == a.n * b.d <= b.n * a.d

RLt(a, b) == a.n * b.d < b.n * a.d

RMax(a, b) == IF RLt(a, b) THEN b ELSE a

\* the value is rounded up to the next whole number
RoundCeiling(a) ==
    IF a.n % a.d = 0 THEN a.n \div a.d ELSE (a.n \div a.d) + 1

\* Python's round() of a non-negative rational: to nearest, ties to even
RoundHalfEven(a) ==
    LET fl  == a.n \div a.d
        rem == a.n % a.d
    IN  IF 2 * rem < a.d THEN fl
        ELSE IF 2 * rem > a.d THEN fl + 1
        ELSE IF fl % 2 = 0 THEN fl ELSE fl + 1

Range(seq) == {seq[k] : k \in DOMAIN seq}

-----------------------------------------------------------------------------
(* MusicTheory *)

SCALES ==
    [major      |-> <<0, 2, 4, 5, 7, 9, 11>>,
     minor      |-> <<0, 2, 3, 5, 7, 8, 10>>,
     pentatonic |-> <<0, 2, 4, 7, 9>>,
     blues      |-> <<0, 3, 5, 6, 7, 10>>]

\* min(distances)
MinOf(seq) == CHOOSE m \in Range(seq) : \A x \in Range(seq) : m <= x

\* the last position holding v
IndexOfLast(seq, v) ==
    CHOOSE k \in DOMAIN seq : seq[k] = v /\ \A j \in (k + 1)..Len(seq) : seq[j] # v

\* list.index(v): the first position holding v
IndexOf(seq, v) ==
    CHOOSE k \in DOMAIN seq : seq[k] = v /\ \A j \in 1..(k - 1) : seq[j] # v



constrain_to_scale(pitch, scale) ==
    IF pitch < 0 \/ pitch > 127 THEN 60
    ELSE LET note   == pitch % 12
             octave == pitch \div 12
         IN  IF note \in Range(scale) THEN pitch
             ELSE LET distances    == [k \in DOMAIN scale |-> Abs(note - scale[k])]
                      min_distance == MinOf(distances)
                      nearest_note == scale[IndexOf(distances, min_distance)]
                  IN  IF nearest_note > note /\ note < 6
                      THEN octave * 12 + nearest_note
                      ELSE octave * 12 + nearest_note

GENRE_SCALE_MAP ==
    [pop |-> "major", rock |-> "pentatonic", jazz |-> "blues", classical |-> "major"]

\* dict.get(key, default)
DictGet(dict, key, default) == IF key \in DOMAIN dict THEN dict[key] ELSE default

\* str.lower() on the genre strings the model draws
\* the genre is looked up as it was given
LowerMissing(s) == s

\* str.lower() on the genre strings the model draws
Lower(s) ==
    CASE s = "Jazz" -> "jazz"
      [] s = "POP"  -> "pop"
      [] OTHER      -> s

get_scale_for_genre(genre) ==
    SCALES[DictGet(GENRE_SCALE_MAP, Lower(genre), "major")]

\* the minimum length protection is left out
quantize_duration_unprotected(value, grid) ==
    IF RLe(value, Rat(1, 20)) THEN RInt(0)
    ELSE RMul(RInt(RoundHalfEven(RDiv(value, grid))), grid)

quantize_duration(value, grid) ==
    IF RLe(value, Rat(1, 20)) THEN RInt(0)
    ELSE LET quantized == RMul(RInt(RoundHalfEven(RDiv(value, grid))), grid)
         IN  IF quantized = RInt(0) /\ RLt(Rat(1, 20), value)
             THEN grid
             ELSE quantized

-----------------------------------------------------------------------------
(* SeedGenerator *)

GENRE_START_PITCH == [pop |-> 60, rock |-> 57, jazz |-> 63, classical |-> 64]

\* the motif keeps ascending: the offset is not taken modulo 5
generate_smart_seed_unwrapped(genre, seq_length, vocab_size, max_step, max_duration) ==
    LET start_pitch == DictGet(GENRE_START_PITCH, Lower(genre), 60)
    IN  [k \in 1..seq_length |->
            LET i == k - 1
            IN  IF i < 15
                THEN <<RInt(0), RInt(0), RInt(0)>>
                ELSE <<Rat(start_pitch + (i - 15), vocab_size),
                       RDiv(Rat(1, 2), max_step),
                       RDiv(Rat(2, 5), max_duration)>>]

\* seed[i] of the source is entry i + 1 here
generate_smart_seed(genre, seq_length, vocab_size, max_step, max_duration) ==
    LET start_pitch == DictGet(GENRE_START_PITCH, Lower(genre), 60)
    IN  [k \in 1..seq_length |->
            LET i == k - 1
            IN  IF i < 15
                THEN <<RInt(0), RInt(0), RInt(0)>>
                ELSE LET offset == i - 15
                         pitch  == start_pitch + (offset % 5)
                     IN  <<Rat(pitch, vocab_size),
                           RDiv(Rat(1, 2), max_step),
                           RDiv(Rat(2, 5), max_duration)>>]

-----------------------------------------------------------------------------
(* The Oracle: predict_next_note around model.predict *)

\* raw model outputs: a sampled pitch and the two regression outputs, which may
\* be negative
RawOutputs ==
    { [pitch |-> 64,  step |-> Rat(1, 2),  duration |-> Rat(2, 5)],
      [pitch |-> 61,  step |-> Rat(1, 16), duration |-> RInt(0)],
      [pitch |-> 126, step |-> Rat(-1, 4), duration |-> Rat(3, 16)],
      [pitch |-> 3,   step |-> Rat(9, 8),  duration |-> Rat(1, 25)] }

\* what predict_next_note returns for a raw output (when it does not raise)
predict_next_note(raw) ==
    [pitch    |-> raw.pitch,
     step     |-> RMax(RInt(0), raw.step),
     duration |-> RMax(RInt(0), raw.duration)]

\* the assertion at the top of predict_next_note
TemperatureOk(temperature) == RLt(RInt(0), temperature)

-----------------------------------------------------------------------------
(* MelodyServiceV2._generate_with_constraints *)

SEQ_LENGTH == 25

tempo_scale_of(tempo) == Rat(120, Max2(tempo, 1))

\* the locals at the top of the loop
GenStart(input_notes, temperature) ==
    [i               |-> 0,
     generated_notes |-> <<>>,
     prev_start      |-> RInt(0),
     input_notes     |-> input_notes,
     temperature     |-> temperature]

\* the note fed back into the window carries the tempo-scaled step and duration
FeedbackNoteScaled(pitch, step, duration, tempo_scale, cfg) ==
    <<Rat(pitch, cfg.vocab_size),
      RDiv(RMul(step, tempo_scale), cfg.max_step),
      RDiv(RMul(duration, tempo_scale), cfg.max_duration)>>

\* norm_new_note
FeedbackNote(pitch, step, duration, tempo_scale, cfg) ==
    <<Rat(pitch, cfg.vocab_size),
      RDiv(step, cfg.max_step),
      RDiv(duration, cfg.max_duration)>>

\* the tempo scale is applied the wrong way round
ScaleTimeInverse(value, tempo_scale) == RDiv(value, tempo_scale)

\* step * tempo_scale, duration * tempo_scale
ScaleTime(value, tempo_scale) == RMul(value, tempo_scale)

\* the step is taken as the start itself: prev_start is not added
NoteTimesUnaccumulated(prev_start, scaled_step, scaled_duration) ==
    [start |-> scaled_step,
     end   |-> RAdd(scaled_step, scaled_duration),
     next  |-> scaled_step]

\* the floor is left out
FloorTimeMissing(value) == value

\* max(0.125, step), max(0.125, duration)
FloorTime(value) == RMax(Rat(1, 8), value)

\* the new entry is appended and nothing is dropped
WindowPushGrow(input_notes, norm_new_note) == Append(input_notes, norm_new_note)

\* the new entry is put in front and the last entry is dropped
WindowPushFront(input_notes, norm_new_note) ==
    <<norm_new_note>> \o SubSeq(input_notes, 1, Len(input_notes) - 1)

\* np.vstack([input_notes[1:], norm_new_note])
WindowPush(input_notes, norm_new_note) == Tail(input_notes) \o <<norm_new_note>>

\* the accumulator advances to the note's end
NoteTimesToEnd(prev_start, scaled_step, scaled_duration) ==
    LET start == RAdd(prev_start, scaled_step)
    IN  [start |-> start,
         end   |-> RAdd(start, scaled_duration),
         next  |-> RAdd(start, scaled_duration)]

\* start, end and the next prev_start
NoteTimes(prev_start, scaled_step, scaled_duration) ==
    LET start == RAdd(prev_start, scaled_step)
    IN  [start |-> start,
         end   |-> RAdd(start, scaled_duration),
         next  |-> start]

\* the adjustment is made at the end of pass 0 as well
NextTemperatureFromZero(i, temperature) ==
    IF i % 16 = 0
    THEN (IF RLt(RInt(1), temperature) THEN Rat(9, 10) ELSE Rat(6, 5))
    ELSE temperature

\* dynamic temperature adjustment at the end of pass i
NextTemperature(i, temperature) ==
    IF i > 0 /\ i % 16 = 0
    THEN (IF RLt(RInt(1), temperature) THEN Rat(9, 10) ELSE Rat(6, 5))
    ELSE temperature

\* one pass of the loop body for the prediction (pitch, step, duration)
GenIteration(g, prediction, tempo, genre, cfg) ==
    LET scale       == get_scale_for_genre(genre)
        tempo_scale == tempo_scale_of(tempo)
        pitch       == constrain_to_scale(prediction.pitch, scale)
        step        == FloorTime(quantize_duration(prediction.step, Rat(1, 8)))
        duration    == FloorTime(quantize_duration(prediction.duration, Rat(1, 8)))
        scaled_step     == ScaleTime(step, tempo_scale)
        scaled_duration == ScaleTime(duration, tempo_scale)
        t           == NoteTimes(g.prev_start, scaled_step, scaled_duration)
        note_data   == [pitch    |-> pitch,
                        start    |-> t.start,
                        end      |-> t.end,
                        step     |-> scaled_step,
                        duration |-> scaled_duration]
        norm_new_note == FeedbackNote(pitch, step, duration, tempo_scale, cfg)
    IN  [i               |-> g.i + 1,
         generated_notes |-> Append(g.generated_notes, note_data),
         prev_start      |-> t.next,
         input_notes     |-> WindowPush(g.input_notes, norm_new_note),
         temperature     |-> NextTemperature(g.i, g.temperature)]

-----------------------------------------------------------------------------
(* Two runs of _generate_with_constraints that differ only in tempo and are *)
(* given the same raw predictions call by call                              *)

TempoInputs == {0 - 60, 0, 60, 120, 240}

GenreInputs == {"pop", "rock", "Jazz", "classical", "metal"}

\* (vocab_size, max_step, max_duration) as normalization_params.json may set them
ConfigInputs ==
    { [vocab_size |-> 128, max_step |-> RInt(1), max_duration |-> RInt(1)],
      [vocab_size |-> 128, max_step |-> Rat(5, 2), max_duration |-> Rat(4, 1)] }

TemperatureInputs == {Rat(11, 10), Rat(9, 10)}

InitIdleScale ==
    /\ ct_pitch = 60
    /\ ct_scale = SCALES.major
    /\ ct_calls = 0
    /\ ct_once = 0
    /\ ct_twice = 0

InitIdleQuantize ==
    /\ qd_value = RInt(0)
    /\ qd_calls = 0
    /\ qd_quantized = RInt(0)

InitIdleConcurrent == cc_req = <<>> /\ cc_classify = "idle"

InitIdleSeed == sg_pc = "idle" /\ sg_args = <<>> /\ sg_seed = <<>>

InitIdlePair ==
    /\ pr_pc = "idle"
    /\ pr_args = <<>>
    /\ pr_tempo = <<>>
    /\ pr_run = <<>>

InitIdleRequest ==
    /\ pc = "idle"
    /\ service = <<>>
    /\ args = <<>>
    /\ num_notes = 0
    /\ input_seed = <<>>
    /\ gen = <<>>
    /\ demo = <<>>
    /\ notes = <<>>
    /\ midi = <<>>
    /\ midi_base64 = <<>>
    /\ audio_url = <<>>
    /\ result = <<>>
    /\ np_random = 0
    /\ trace = <<>>

\* what model.predict may give at call i: anything when the model is left open
\* (oracle = <<>>), and oracle's entries in turn when the model is a stub
OracleOutputs(oracle, i) ==
    IF oracle = <<>> THEN RawOutputs ELSE {oracle[(i % Len(oracle)) + 1]}

InitPair ==
    /\ pr_pc = "loop"
    /\ \E total \in 0..MaxTotalNotes, genre \in GenreInputs,
          temperature \in TemperatureInputs, cfg \in ConfigInputs :
          /\ pr_args = [total_notes |-> total, genre |-> genre,
                        temperature |-> temperature, cfg |-> cfg, oracle |-> <<>>]
          /\ pr_run = [r \in 1..2 |->
                         GenStart(generate_smart_seed(genre, SEQ_LENGTH, cfg.vocab_size,
                                                      cfg.max_step, cfg.max_duration),
                                  temperature)]
    /\ \E t1 \in TempoInputs, t2 \in TempoInputs :
          /\ t1 < t2
          /\ pr_tempo = <<t1, t2>>
    /\ InitIdleScale
    /\ InitIdleQuantize
    /\ InitIdleConcurrent
    /\ InitIdleSeed
    /\ InitIdleRequest

\* call i of both runs: the model answers both with the same raw output
PairPredict ==
    /\ pr_pc = "loop"
    /\ pr_run[1].i < pr_args.total_notes
    /\ \A r \in 1..2 : TemperatureOk(pr_run[r].temperature)
    /\ \E raw \in OracleOutputs(pr_args.oracle, pr_run[1].i) :
          pr_run' = [r \in 1..2 |->
                        GenIteration(pr_run[r], predict_next_note(raw), pr_tempo[r],
                                     pr_args.genre, pr_args.cfg)]
    /\ UNCHANGED <<pr_pc, pr_args, pr_tempo, ctVars, rqVars, qdVars, ccVars, sgVars>>

\* call i raises in both runs: the exception leaves _generate_with_constraints
PairRaise ==
    /\ pr_pc = "loop"
    /\ pr_run[1].i < pr_args.total_notes
    /\ pr_pc' = "raised"
    /\ UNCHANGED <<pr_args, pr_tempo, pr_run, ctVars, rqVars, qdVars, ccVars, sgVars>>

\* the loop has run total_notes times
PairReturn ==
    /\ pr_pc = "loop"
    /\ pr_run[1].i >= pr_args.total_notes
    /\ pr_pc' = "returned"
    /\ UNCHANGED <<pr_args, pr_tempo, pr_run, ctVars, rqVars, qdVars, ccVars, sgVars>>

NextPair == PairPredict \/ PairRaise \/ PairReturn

SpecPair == InitPair /\ [][NextPair]_vars

-----------------------------------------------------------------------------
(* The same two runs with a stub model and more notes than the window holds *)

\* a stub returning the constant (pitch 64, step 0.5, duration 0.4)
ConstantOracle == <<[pitch |-> 64, step |-> Rat(1, 2), duration |-> Rat(2, 5)]>>

\* stubs: the constant one and two that go round the raw outputs
OraclePatterns ==
    { ConstantOracle,
      <<[pitch |-> 64,  step |-> Rat(1, 2),  duration |-> Rat(2, 5)],
        [pitch |-> 61,  step |-> Rat(1, 16), duration |-> RInt(0)],
        [pitch |-> 126, step |-> Rat(-1, 4), duration |-> Rat(3, 16)],
        [pitch |-> 3,   step |-> Rat(9, 8),  duration |-> Rat(1, 25)]>>,
      <<[pitch |-> 3,   step |-> Rat(9, 8),  duration |-> Rat(1, 25)],
        [pitch |-> 126, step |-> Rat(-1, 4), duration |-> Rat(3, 16)],
        [pitch |-> 61,  step |-> Rat(1, 16), duration |-> RInt(0)]>> }

LongTempoPairs == {<<120, 240>>, <<0, 60>>}

InitLong ==
    /\ pr_pc = "loop"
    /\ \E total \in SEQ_LENGTH..(SEQ_LENGTH + MaxExtraNotes), genre \in GenreInputs,
          temperature \in TemperatureInputs, cfg \in ConfigInputs,
          oracle \in OraclePatterns :
          /\ pr_args = [total_notes |-> total, genre |-> genre,
                        temperature |-> temperature, cfg |-> cfg, oracle |-> oracle]
          /\ pr_run = [r \in 1..2 |->
                         GenStart(generate_smart_seed(genre, SEQ_LENGTH, cfg.vocab_size,
                                                      cfg.max_step, cfg.max_duration),
                                  temperature)]
    /\ \E pair \in LongTempoPairs : pr_tempo = pair
    /\ InitIdleScale
    /\ InitIdleQuantize
    /\ InitIdleConcurrent
    /\ InitIdleSeed
    /\ InitIdleRequest

SpecLong == InitLong /\ [][NextPair]_vars

-----------------------------------------------------------------------------
(* The same two runs, long enough for the temperature to be adjusted twice *)

\* temperatures a caller may pass, 0 included (the Oracle's assertion fails)
ToggleTemperatureInputs == {RInt(0), Rat(1, 2), RInt(1), Rat(11, 10), Rat(6, 5)}

InitToggle ==
    /\ pr_pc = "loop"
    /\ \E total \in (2 * 16 + 2)..(2 * 16 + 2 + MaxExtraNotes),
          genre \in {"pop", "Jazz"},
          temperature \in ToggleTemperatureInputs, cfg \in ConfigInputs,
          oracle \in OraclePatterns :
          /\ pr_args = [total_notes |-> total, genre |-> genre,
                        temperature |-> temperature, cfg |-> cfg, oracle |-> oracle]
          /\ pr_run = [r \in 1..2 |->
                         GenStart(generate_smart_seed(genre, SEQ_LENGTH, cfg.vocab_size,
                                                      cfg.max_step, cfg.max_duration),
                                  temperature)]
    /\ \E pair \in LongTempoPairs : pr_tempo = pair
    /\ InitIdleScale
    /\ InitIdleQuantize
    /\ InitIdleConcurrent
    /\ InitIdleSeed
    /\ InitIdleRequest

SpecToggle == InitToggle /\ [][NextPair]_vars

-----------------------------------------------------------------------------
(* numpy's process-wide generator: every draw reads the state and advances *)
(* it. The generator is a small full-period congruential one.             *)

NextRandom(s) == (5 * s + 3) % 16

\* np.random.choice(a)
random_choice(a, s) == a[(s % Len(a)) + 1]

\* np.random.randint(low, high): low <= value < high
random_randint(low, high, s) == low + (s % (high - low))

\* the values np.random.uniform(0.9, 1.1) is seen to return
JitterInputs == <<Rat(9, 10), Rat(24, 25), Rat(11, 10)>>

random_uniform(s) == JitterInputs[(s % Len(JitterInputs)) + 1]

-----------------------------------------------------------------------------
(* MelodyServiceV2._generate_demo_melody *)

genre_configs ==
    [pop |->
        [scale            |-> <<60, 62, 64, 65, 67, 69, 71, 72>>,
         rhythm_pattern   |-> <<Rat(1, 2), Rat(1, 2), RInt(1), Rat(1, 2), Rat(1, 2),
                                RInt(1), Rat(1, 4), Rat(1, 4)>>,
         duration_pattern |-> <<Rat(2, 5), Rat(2, 5), Rat(4, 5), Rat(2, 5), Rat(2, 5),
                                Rat(4, 5), Rat(1, 5), Rat(1, 5)>>],
     jazz |->
        [scale            |-> <<60, 63, 65, 66, 67, 70, 72>>,
         rhythm_pattern   |-> <<Rat(33, 100), Rat(67, 100), Rat(1, 2), Rat(1, 2), RInt(1),
                                Rat(33, 100), Rat(67, 100)>>,
         duration_pattern |-> <<Rat(3, 10), Rat(3, 5), Rat(2, 5), Rat(2, 5), Rat(9, 10),
                                Rat(3, 10), Rat(3, 5)>>],
     classical |->
        [scale            |-> <<60, 62, 64, 65, 67, 69, 71, 72, 74, 76>>,
         rhythm_pattern   |-> <<RInt(1), RInt(1), Rat(1, 2), Rat(1, 2), RInt(1), RInt(1),
                                RInt(2)>>,
         duration_pattern |-> <<Rat(9, 10), Rat(9, 10), Rat(9, 20), Rat(9, 20), Rat(9, 10),
                                Rat(9, 10), Rat(9, 5)>>],
     rock |->
        [scale            |-> <<60, 63, 65, 67, 70, 72>>,
         rhythm_pattern   |-> <<Rat(1, 4), Rat(1, 4), Rat(1, 2), Rat(1, 4), Rat(1, 4),
                                Rat(1, 2), RInt(1)>>,
         duration_pattern |-> <<Rat(1, 5), Rat(1, 5), Rat(2, 5), Rat(1, 5), Rat(1, 5),
                                Rat(2, 5), Rat(4, 5)>>]]

\* round(x, 3) of a non-negative value
Round3(x) == Rat(RoundHalfEven(RMul(x, RInt(1000))), 1000)

demo_config(genre) == DictGet(genre_configs, Lower(genre), genre_configs.pop)

\* the locals at the top of the loop
DemoStart(genre) ==
    LET scale == demo_config(genre).scale
    IN  [i            |-> 0,
         notes        |-> <<>>,
         current_time |-> RInt(0),
         prev_pitch   |-> scale[(Len(scale) \div 2) + 1]]

\* every scale member is a choice, however far from the previous pitch
pitch_choices_unfiltered(scale, prev_pitch) == scale

\* pitch_choices: the scale members within 5 semitones of prev_pitch, or the
\* whole scale when there is none
pitch_choices_of(scale, prev_pitch) ==
    LET near == SelectSeq(scale, LAMBDA q : Abs(q - prev_pitch) <= 5)
    IN  IF near = <<>> THEN scale ELSE near

\* one pass of the loop body, drawing from generator state s
DemoIteration(d, genre, s) ==
    LET config   == demo_config(genre)
        scale    == config.scale
        rhythm   == config.rhythm_pattern
        durations == config.duration_pattern
        pitch_choices == pitch_choices_of(scale, d.prev_pitch)
        pitch    == random_choice(pitch_choices, s)
        s1       == NextRandom(s)
        step     == RMul(rhythm[(d.i % Len(rhythm)) + 1], random_uniform(s1))
        s2       == NextRandom(s1)
        duration == RMul(durations[(d.i % Len(durations)) + 1], random_uniform(s2))
        s3       == NextRandom(s2)
    IN  [demo |->
            [i            |-> d.i + 1,
             notes        |-> Append(d.notes,
                                [pitch      |-> pitch,
                                 step       |-> Round3(step),
                                 duration   |-> Round3(duration),
                                 start_time |-> Round3(d.current_time)]),
             current_time |-> RAdd(d.current_time, step),
             prev_pitch   |-> pitch],
         np_random |-> s3]

-----------------------------------------------------------------------------
(* EnhancedMidiGenerator.notes_to_midi_base64 *)

INSTRUMENT_MAP == [rock |-> 29, jazz |-> 66, classical |-> 40, pop |-> 0]

CHORD_PROGRESSION == <<36, 43, 45, 41>>

RSub(a, b) == Rat(a.n * b.d - b.n * a.d, a.d * b.d)

\* a % m for a >= 0 and an integer m > 0
RMod(a, m) == Rat(a.n % (m * a.d), a.d)

Clamp(lo, hi, x) == Min2(hi, Max2(lo, x))

Note(velocity, pitch, start, end) ==
    [velocity |-> velocity, pitch |-> pitch, start |-> start, end |-> end]

\* a note just before a bar line is accented like one on it
BeatAccentWrapped(start, seconds_per_beat) ==
    LET beat_pos == RMod(RDiv(start, seconds_per_beat), 4)
    IN  IF RLt(beat_pos, Rat(1, 10)) \/ RLt(Rat(39, 10), beat_pos) THEN 15
        ELSE IF RLt(RSub(beat_pos, RInt(2)), Rat(1, 10))
                /\ RLt(RSub(RInt(2), beat_pos), Rat(1, 10)) THEN 10
        ELSE 0

\* the accent of a melody note that starts at `start`
BeatAccent(start, seconds_per_beat) ==
    LET beat_pos == RMod(RDiv(start, seconds_per_beat), 4)
    IN  IF RLt(beat_pos, Rat(1, 10)) THEN 15
        ELSE IF RLt(RSub(beat_pos, RInt(2)), Rat(1, 10))
                /\ RLt(RSub(RInt(2), beat_pos), Rat(1, 10)) THEN 10
        ELSE 0

\* the melody loop from note k on: [ok, track, total_duration, np_random];
\* ok is FALSE when a note has no 'start' or no 'end' (KeyError)
RECURSIVE MelodyLoop(_, _, _, _)
MelodyLoop(ns, k, seconds_per_beat, s) ==
    IF k > Len(ns)
    THEN [ok |-> TRUE, track |-> <<>>, total_duration |-> RInt(0), np_random |-> s]
    ELSE IF ~({"start", "end"} \subseteq DOMAIN ns[k])
    THEN [ok |-> FALSE, track |-> <<>>, total_duration |-> RInt(0), np_random |-> s]
    ELSE LET start    == ns[k].start
             end      == ns[k].end
             humanize == random_randint(0 - 5, 6, s)
             accent   == BeatAccent(start, seconds_per_beat)
             final_velocity == Min2(127, Max2(0, 100 + humanize + accent))
             rest     == MelodyLoop(ns, k + 1, seconds_per_beat, NextRandom(s))
         IN  [ok             |-> rest.ok,
              track          |-> <<Note(final_velocity, ns[k].pitch, start, end)>>
                                 \o rest.track,
              total_duration |-> RMax(end, rest.total_duration),
              np_random      |-> rest.np_random]

\* the chord never changes
root_pitch_fixed(bar_index) == CHORD_PROGRESSION[1]

\* CHORD_PROGRESSION[bar_index % 4]
root_pitch_of(bar_index) == CHORD_PROGRESSION[(bar_index % 4) + 1]

\* the loop goes on while current_time <= total_duration
RECURSIVE BassLoopInclusive(_, _, _, _)
BassLoopInclusive(current_time, bar_index, seconds_per_beat, total_duration) ==
    IF ~RLe(current_time, total_duration) THEN <<>>
    ELSE LET root_pitch == root_pitch_of(bar_index)
             half       == RAdd(current_time, RMul(seconds_per_beat, RInt(2)))
             bar_end    == RAdd(current_time, RMul(seconds_per_beat, RInt(4)))
         IN  <<Note(90, root_pitch, current_time, half)>>
             \o (IF RLt(half, total_duration)
                 THEN <<Note(85, root_pitch, half, bar_end)>> ELSE <<>>)
             \o BassLoopInclusive(bar_end, bar_index + 1, seconds_per_beat,
                                  total_duration)

\* the bass loop from current_time on
RECURSIVE BassLoop(_, _, _, _)
BassLoop(current_time, bar_index, seconds_per_beat, total_duration) ==
    IF ~RLt(current_time, total_duration) THEN <<>>
    ELSE LET root_pitch == root_pitch_of(bar_index)
             half       == RAdd(current_time, RMul(seconds_per_beat, RInt(2)))
             bar_end    == RAdd(current_time, RMul(seconds_per_beat, RInt(4)))
             bass_note1 == Note(90, root_pitch, current_time, half)
             bass_note2 == Note(85, root_pitch, half, bar_end)
         IN  <<bass_note1>>
             \o (IF RLt(half, total_duration) THEN <<bass_note2>> ELSE <<>>)
             \o BassLoop(bar_end, bar_index + 1, seconds_per_beat, total_duration)

\* a drum hit of 0.1 s
Hit(velocity, pitch, start) == Note(velocity, pitch, start, RAdd(start, Rat(1, 10)))

\* current_time + beats * seconds_per_beat
BeatTime(current_time, beats, seconds_per_beat) ==
    RAdd(current_time, RMul(beats, seconds_per_beat))

\* the six hi-hats of a fill bar from hat i on: [hits, np_random]
RECURSIVE FillHats(_, _, _, _)
FillHats(i, current_time, seconds_per_beat, s) ==
    IF i >= 6 THEN [hits |-> <<>>, np_random |-> s]
    ELSE LET hat_time == BeatTime(current_time, Rat(i, 2), seconds_per_beat)
             rest     == FillHats(i + 1, current_time, seconds_per_beat, NextRandom(s))
         IN  [hits      |-> <<Hit(random_randint(60, 90, s), 42, hat_time)>> \o rest.hits,
              np_random |-> rest.np_random]

\* the eight hi-hats of a groove bar from hat i on, cut at total_duration
RECURSIVE GrooveHats(_, _, _, _, _)
GrooveHats(i, current_time, seconds_per_beat, total_duration, s) ==
    IF i >= 8 THEN [hits |-> <<>>, np_random |-> s]
    ELSE LET hat_time == BeatTime(current_time, Rat(i, 2), seconds_per_beat)
         IN  IF ~RLt(hat_time, total_duration)
             THEN [hits |-> <<>>, np_random |-> s]
             ELSE LET base_vel == IF i % 2 = 0 THEN 85 ELSE 60
                      vel      == base_vel + random_randint(0 - 10, 10, s)
                      rest     == GrooveHats(i + 1, current_time, seconds_per_beat,
                                             total_duration, NextRandom(s))
                  IN  [hits      |-> <<Hit(Max2(1, Min2(127, vel)), 42, hat_time)>>
                                     \o rest.hits,
                       np_random |-> rest.np_random]

kick_times == <<RInt(0), RInt(2), Rat(5, 2)>>

snare_times == <<RInt(1), RInt(3)>>

\* the kicks of a groove bar from kick k on, cut at total_duration
RECURSIVE GrooveKicks(_, _, _, _)
GrooveKicks(k, current_time, seconds_per_beat, total_duration) ==
    IF k > Len(kick_times) THEN <<>>
    ELSE LET kt     == kick_times[k]
             k_time == BeatTime(current_time, kt, seconds_per_beat)
         IN  IF ~RLt(k_time, total_duration) THEN <<>>
             ELSE <<Hit(IF kt.d = 1 THEN 100 ELSE 90, 36, k_time)>>
                  \o GrooveKicks(k + 1, current_time, seconds_per_beat, total_duration)

\* the snares of a groove bar from snare k on, cut at total_duration
RECURSIVE GrooveSnares(_, _, _, _, _)
GrooveSnares(k, current_time, seconds_per_beat, total_duration, s) ==
    IF k > Len(snare_times) THEN [hits |-> <<>>, np_random |-> s]
    ELSE LET s_time == BeatTime(current_time, snare_times[k], seconds_per_beat)
         IN  IF ~RLt(s_time, total_duration)
             THEN [hits |-> <<>>, np_random |-> s]
             ELSE LET rest == GrooveSnares(k + 1, current_time, seconds_per_beat,
                                           total_duration, NextRandom(s))
                  IN  [hits      |-> <<Hit(95 + random_randint(0 - 5, 5, s), 38, s_time)>>
                                     \o rest.hits,
                       np_random |-> rest.np_random]

\* the fill comes in the first bar of every four, not the last
is_fill_bar_first(bar_index) == bar_index % 4 = 0

is_fill_bar(bar_index) == (bar_index + 1) % 4 = 0

\* one fill bar: [hits, np_random]
FillBar(current_time, seconds_per_beat, s) ==
    LET hats       == FillHats(0, current_time, seconds_per_beat, s)
        fill_start == BeatTime(current_time, RInt(3), seconds_per_beat)
    IN  [hits |->
            hats.hits
            \o <<Hit(100, 36, current_time),
                 Hit(95, 38, BeatTime(current_time, RInt(1), seconds_per_beat)),
                 Hit(90, 36, BeatTime(current_time, RInt(2), seconds_per_beat)),
                 Hit(110, 38, fill_start),
                 Hit(100, 50, BeatTime(fill_start, Rat(1, 4), seconds_per_beat)),
                 Hit(110, 47, BeatTime(fill_start, Rat(1, 2), seconds_per_beat)),
                 Hit(120, 43, BeatTime(fill_start, Rat(3, 4), seconds_per_beat))>>,
         np_random |-> hats.np_random]

\* the ghost snare comes in the even-indexed bars
has_ghost_even(bar_index) == bar_index % 2 = 0

\* `if bar_index % 2 == 1`
has_ghost(bar_index) == bar_index % 2 = 1

\* one groove bar: [hits, np_random]
GrooveBar(current_time, bar_index, seconds_per_beat, total_duration, s) ==
    LET hats       == GrooveHats(0, current_time, seconds_per_beat, total_duration, s)
        kicks      == GrooveKicks(1, current_time, seconds_per_beat, total_duration)
        snares     == GrooveSnares(1, current_time, seconds_per_beat, total_duration,
                                   hats.np_random)
        ghost_time == BeatTime(current_time, Rat(15, 4), seconds_per_beat)
        ghost      == IF has_ghost(bar_index) /\ RLt(ghost_time, total_duration)
                      THEN <<Note(50, 38, ghost_time, RAdd(ghost_time, Rat(1, 20)))>>
                      ELSE <<>>
    IN  [hits      |-> hats.hits \o kicks \o snares.hits \o ghost,
         np_random |-> snares.np_random]

\* the drum loop from current_time on: [hits, np_random]
RECURSIVE DrumLoop(_, _, _, _, _)
DrumLoop(current_time, bar_index, seconds_per_beat, total_duration, s) ==
    IF ~RLt(current_time, total_duration) THEN [hits |-> <<>>, np_random |-> s]
    ELSE LET bar  == IF is_fill_bar(bar_index)
                     THEN FillBar(current_time, seconds_per_beat, s)
                     ELSE GrooveBar(current_time, bar_index, seconds_per_beat,
                                    total_duration, s)
             rest == DrumLoop(BeatTime(current_time, RInt(4), seconds_per_beat),
                              bar_index + 1, seconds_per_beat, total_duration,
                              bar.np_random)
         IN  [hits |-> bar.hits \o rest.hits, np_random |-> rest.np_random]

\* the except clause re-raises
notes_to_midi_reraise == [raised |-> TRUE, value |-> <<>>]

\* the except clause of notes_to_midi_base64: log, return ""
notes_to_midi_except == [raised |-> FALSE, value |-> <<>>]

\* _create_audio on the outcome of notes_to_midi_base64; "" is <<>>
create_audio(outcome) ==
    IF ~outcome.raised /\ outcome.value # <<>>
    THEN <<"data:audio/midi;base64,">> \o outcome.value
    ELSE <<>>

-----------------------------------------------------------------------------
(* MelodyServiceV2.generate_melody: one request *)

\* int(x): truncation toward zero
TruncToInt(x) == IF x.n >= 0 THEN x.n \div x.d ELSE 0 - ((0 - x.n) \div x.d)

BarsInputs == {0 - 1, 0, 1}

RequestTempoInputs == {0, 60, 240}

RequestTemperatureInputs == {RInt(0), Rat(11, 10)}

\* the raw outputs the model gives in a request
RequestRawOutputs ==
    { [pitch |-> 64, step |-> Rat(1, 2), duration |-> Rat(2, 5)],
      [pitch |-> 65, step |-> Rat(9, 8), duration |-> Rat(1, 25)] }

\* the request's own state at the call, for a service, arguments and generator state
RequestStarts(service0, args0, seed) ==
    /\ pc = "call"
    /\ service = service0
    /\ args = args0
    /\ num_notes = 0
    /\ input_seed = <<>>
    /\ gen = <<>>
    /\ demo = <<>>
    /\ notes = <<>>
    /\ midi = <<>>
    /\ midi_base64 = <<>>
    /\ audio_url = <<>>
    /\ result = <<>>
    /\ np_random = seed
    /\ trace = [oracle_calls |-> 0, caught |-> 0, raise_at |-> 0 - 1,
                midi_error |-> "none"]

ServiceInputs ==
    { [model |-> m, vocab_size |-> cfg.vocab_size, max_step |-> cfg.max_step,
       max_duration |-> cfg.max_duration] :
      m \in {"None", "loaded"}, cfg \in ConfigInputs }

ArgsInputs ==
    { [tempo |-> tempo, genre |-> genre, bars |-> bars, temperature |-> temperature] :
      tempo \in RequestTempoInputs, genre \in GenreInputs, bars \in BarsInputs,
      temperature \in RequestTemperatureInputs }

InitRequest ==
    /\ \E service0 \in ServiceInputs, args0 \in ArgsInputs, seed \in 0..MaxSeed :
          RequestStarts(service0, args0, seed)
    /\ InitIdleScale
    /\ InitIdleQuantize
    /\ InitIdleConcurrent
    /\ InitIdleSeed
    /\ InitIdlePair

\* the model is tried whether or not one is loaded
UseModelAlways(svc) == TRUE

\* `if self.model is not None`
UseModel(svc) == svc.model # "None"

\* the fallback keeps the notes the model produced and generates the rest
FallbackStartPartial(g, genre) ==
    [DemoStart(genre) EXCEPT !.i = g.i, !.notes = g.generated_notes]

\* the except clause of generate_melody calls _generate_demo_melody afresh
FallbackStart(g, genre) == DemoStart(genre)

\* the call of _generate_with_constraints is not inside a try
InferenceErrorPropagates == "failed"

\* where an exception out of _generate_with_constraints takes the request:
\* into the except clause, which runs the demo generator
InferenceErrorGoesTo == "demo"

\* lines 625-650 up to the first loop pass
Begin ==
    /\ pc = "call"
    /\ num_notes' = TruncToInt(RMul(RInt(args.bars * 4), Rat(3, 2)))
    /\ input_seed' = generate_smart_seed(args.genre, SEQ_LENGTH, service.vocab_size,
                                         service.max_step, service.max_duration)
    /\ IF UseModel(service)
       THEN /\ pc' = "generate"
            /\ gen' = GenStart(input_seed', args.temperature)
            /\ demo' = demo
       ELSE /\ pc' = "demo"
            /\ demo' = DemoStart(args.genre)
            /\ gen' = gen
    /\ UNCHANGED <<service, args, notes, midi, midi_base64, audio_url, result,
                   np_random, trace, ctVars, prVars, qdVars, ccVars, sgVars>>

\* one loop pass of _generate_with_constraints that predict_next_note survives
Predict ==
    /\ pc = "generate"
    /\ gen.i < num_notes
    /\ service.model # "None"
    /\ TemperatureOk(gen.temperature)
    /\ \E raw \in RequestRawOutputs :
          gen' = GenIteration(gen, predict_next_note(raw), args.tempo, args.genre, service)
    /\ trace' = [trace EXCEPT !.oracle_calls = @ + 1]
    /\ UNCHANGED <<pc, service, args, num_notes, input_seed, demo, notes, midi, midi_base64,
                   audio_url, result, np_random, ctVars, prVars, qdVars, ccVars, sgVars>>

\* predict_next_note raises: its assertion fails, or the model does
PredictRaises ==
    /\ pc = "generate"
    /\ gen.i < num_notes
    /\ pc' = InferenceErrorGoesTo
    /\ IF pc' = "demo"
       THEN /\ demo' = FallbackStart(gen, args.genre)
            /\ trace' = [trace EXCEPT !.oracle_calls = @ + 1, !.caught = @ + 1,
                                      !.raise_at = gen.i]
       ELSE /\ demo' = demo
            /\ trace' = [trace EXCEPT !.oracle_calls = @ + 1, !.raise_at = gen.i]
    /\ gen' = <<>>
    /\ UNCHANGED <<service, args, num_notes, input_seed, notes, midi, midi_base64, audio_url,
                   result, np_random, ctVars, prVars, qdVars, ccVars, sgVars>>

\* _generate_with_constraints returns generated_notes
GenerateReturn ==
    /\ pc = "generate"
    /\ gen.i >= num_notes
    /\ notes' = gen.generated_notes
    /\ pc' = "create_audio"
    /\ UNCHANGED <<service, args, num_notes, input_seed, gen, demo, midi, midi_base64, audio_url,
                   result, np_random, trace, ctVars, prVars, qdVars, ccVars, sgVars>>

\* one loop pass of _generate_demo_melody
DemoNote ==
    /\ pc = "demo"
    /\ demo.i < num_notes
    /\ LET next == DemoIteration(demo, args.genre, np_random)
       IN  /\ demo' = next.demo
           /\ np_random' = next.np_random
    /\ UNCHANGED <<pc, service, args, num_notes, input_seed, gen, notes, midi, midi_base64,
                   audio_url, result, trace, ctVars, prVars, qdVars, ccVars, sgVars>>

\* _generate_demo_melody returns notes
DemoReturn ==
    /\ pc = "demo"
    /\ demo.i >= num_notes
    /\ notes' = demo.notes
    /\ pc' = "create_audio"
    /\ UNCHANGED <<service, args, num_notes, input_seed, gen, demo, midi, midi_base64, audio_url,
                   result, np_random, trace, ctVars, prVars, qdVars, ccVars, sgVars>>

\* notes_to_midi_base64, lines 297-321: the score container and the time scale
MidiBegin ==
    /\ pc = "create_audio"
    /\ LET time_scale == Rat(120, Max2(args.tempo, 1))
       IN  midi' = [initial_tempo    |-> args.tempo,
                    seconds_per_beat |-> RMul(Rat(1, 2), time_scale),
                    program          |-> DictGet(INSTRUMENT_MAP, Lower(args.genre), 0),
                    total_duration   |-> RInt(0),
                    instruments      |-> <<>>]
    /\ pc' = "melody"
    /\ UNCHANGED <<service, args, num_notes, input_seed, gen, demo, notes, midi_base64, audio_url,
                   result, np_random, trace, ctVars, prVars, qdVars, ccVars, sgVars>>

\* lines 326-354: the melody track; a note without 'start' or 'end' is a KeyError,
\* which the except clause turns into the function's outcome
MidiMelody ==
    /\ pc = "melody"
    /\ LET m == MelodyLoop(notes, 1, midi.seconds_per_beat, np_random)
       IN  /\ np_random' = m.np_random
           /\ IF m.ok
              THEN /\ midi' = [midi EXCEPT
                                 !.total_duration = m.total_duration,
                                 !.instruments = Append(@,
                                     [name |-> "Melody", program |-> midi.program,
                                      is_drum |-> FALSE, notes |-> m.track])]
                   /\ pc' = "bass"
                   /\ UNCHANGED <<midi_base64, trace>>
              ELSE /\ midi' = <<>>
                   /\ midi_base64' = notes_to_midi_except
                   /\ trace' = [trace EXCEPT !.midi_error = "KeyError"]
                   /\ pc' = "midi_returned"
    /\ UNCHANGED <<service, args, num_notes, input_seed, gen, demo, notes, audio_url, result,
                   ctVars, prVars, qdVars, ccVars, sgVars>>

\* lines 360-392: the bass track
MidiBass ==
    /\ pc = "bass"
    /\ midi' = [midi EXCEPT !.instruments = Append(@,
                   [name |-> "Bass", program |-> 33, is_drum |-> FALSE,
                    notes |-> BassLoop(RInt(0), 0, midi.seconds_per_beat,
                                       midi.total_duration)])]
    /\ pc' = "drums"
    /\ UNCHANGED <<service, args, num_notes, input_seed, gen, demo, notes, midi_base64, audio_url,
                   result, np_random, trace, ctVars, prVars, qdVars, ccVars, sgVars>>

\* lines 398-513: the drum track
MidiDrums ==
    /\ pc = "drums"
    /\ LET d == DrumLoop(RInt(0), 0, midi.seconds_per_beat, midi.total_duration,
                         np_random)
       IN  /\ midi' = [midi EXCEPT !.instruments = Append(@,
                          [name |-> "Drums", program |-> 0, is_drum |-> TRUE,
                           notes |-> d.hits])]
           /\ np_random' = d.np_random
    /\ pc' = "write"
    /\ UNCHANGED <<service, args, num_notes, input_seed, gen, demo, notes, midi_base64, audio_url,
                   result, trace, ctVars, prVars, qdVars, ccVars, sgVars>>

\* lines 516-520: the score is written and encoded
MidiWrite ==
    /\ pc = "write"
    /\ midi_base64' = [raised |-> FALSE,
                       value  |-> <<[initial_tempo |-> midi.initial_tempo,
                                     instruments   |-> midi.instruments]>>]
    /\ midi' = <<>>
    /\ pc' = "midi_returned"
    /\ UNCHANGED <<service, args, num_notes, input_seed, gen, demo, notes, audio_url, result,
                   np_random, trace, ctVars, prVars, qdVars, ccVars, sgVars>>

\* the library raises in the step the composer is at
MidiError ==
    /\ pc \in {"create_audio", "melody", "bass", "drums", "write"}
    /\ midi_base64' = notes_to_midi_except
    /\ trace' = [trace EXCEPT !.midi_error = pc]
    /\ midi' = <<>>
    /\ pc' = "midi_returned"
    /\ UNCHANGED <<service, args, num_notes, input_seed, gen, demo, notes, audio_url, result,
                   np_random, ctVars, prVars, qdVars, ccVars, sgVars>>

\* _create_audio, lines 813-820
CreateAudioReturn ==
    /\ pc = "midi_returned"
    /\ audio_url' = create_audio(midi_base64)
    /\ pc' = "return"
    /\ UNCHANGED <<service, args, num_notes, input_seed, gen, demo, notes, midi, midi_base64,
                   result, np_random, trace, ctVars, prVars, qdVars, ccVars, sgVars>>

\* lines 655-661
Return ==
    /\ pc = "return"
    /\ result' = [audio_url |-> audio_url, notes |-> notes, tempo |-> args.tempo,
                  genre |-> args.genre, bars |-> args.bars]
    /\ pc' = "done"
    /\ UNCHANGED <<service, args, num_notes, input_seed, gen, demo, notes, midi, midi_base64,
                   audio_url, np_random, trace, ctVars, prVars, qdVars, ccVars, sgVars>>

Next ==
    \/ Begin
    \/ Predict
    \/ PredictRaises
    \/ GenerateReturn
    \/ DemoNote
    \/ DemoReturn
    \/ MidiBegin
    \/ MidiMelody
    \/ MidiBass
    \/ MidiDrums
    \/ MidiWrite
    \/ MidiError
    \/ CreateAudioReturn
    \/ Return

Spec == InitRequest /\ [][Next]_vars

-----------------------------------------------------------------------------
(* notes_to_midi_base64 called on its own, on melodies drawn note by note *)

\* a note to come: pitch, and step and duration in beats of the tempo asked
\* for; on the quarter-beat grid the generation loop keeps, and off it as the
\* demo generator's jitter leaves them
ComposeEntries ==
    { [pitch |-> 65, step |-> RInt(2),      duration |-> RInt(2)],
      [pitch |-> 61, step |-> RInt(8),      duration |-> Rat(1, 4)],
      [pitch |-> 62, step |-> Rat(79, 20),  duration |-> Rat(1, 10)],
      [pitch |-> 63, step |-> Rat(41, 20),  duration |-> Rat(1, 5)] }

ComposeTempoInputs == {0 - 60, 120, 240}

\* the note list for the entries, as both generators build it: starts
\* accumulate the steps and each end is start + duration
RECURSIVE ComposeNotes(_, _, _)
ComposeNotes(entries, prev_start, seconds_per_beat) ==
    IF entries = <<>> THEN <<>>
    ELSE LET scaled_step     == RMul(Head(entries).step, seconds_per_beat)
             scaled_duration == RMul(Head(entries).duration, seconds_per_beat)
             t == NoteTimes(prev_start, scaled_step, scaled_duration)
         IN  <<[pitch    |-> Head(entries).pitch,
                start    |-> t.start,
                end      |-> t.end,
                step     |-> scaled_step,
                duration |-> scaled_duration]>>
             \o ComposeNotes(Tail(entries), t.next, seconds_per_beat)

InitCompose ==
    /\ \E tempo \in ComposeTempoInputs, seed \in 0..MaxSeed,
          count \in 0..MaxComposeNotes :
          \E entries \in [1..count -> ComposeEntries] :
             /\ args = [tempo |-> tempo, genre |-> "rock"]
             /\ notes = ComposeNotes(entries, RInt(0), Rat(60, Max2(tempo, 1)))
             /\ np_random = seed
    /\ pc = "create_audio"
    /\ service = <<>>
    /\ num_notes = 0
    /\ input_seed = <<>>
    /\ gen = <<>>
    /\ demo = <<>>
    /\ midi = <<>>
    /\ midi_base64 = <<>>
    /\ audio_url = <<>>
    /\ result = <<>>
    /\ trace = [oracle_calls |-> 0, caught |-> 0, raise_at |-> 0 - 1,
                midi_error |-> "none"]
    /\ InitIdleScale
    /\ InitIdleQuantize
    /\ InitIdleConcurrent
    /\ InitIdleSeed
    /\ InitIdlePair

NextCompose ==
    \/ MidiBegin
    \/ MidiMelody
    \/ MidiBass
    \/ MidiDrums
    \/ MidiWrite
    \/ MidiError

SpecCompose == InitCompose /\ [][NextCompose]_vars

-----------------------------------------------------------------------------
(* constrain_to_scale on every pitch and every scale *)

RECURSIVE SortedSeq(_)
SortedSeq(S) ==
    IF S = {} THEN <<>>
    ELSE LET m == CHOOSE x \in S : \A y \in S : x <= y
         IN  <<m>> \o SortedSeq(S \ {m})

\* every non-empty list of pitch classes in ascending order, as SCALES lists them
ScaleInputs == {SortedSeq(S) : S \in (SUBSET (0..11)) \ {{}}}

PitchInputs == (0 - PitchOver)..(127 + PitchOver)

InitScale ==
    /\ InitIdleScale /\ InitIdleQuantize /\ InitIdlePair /\ InitIdleRequest
    /\ InitIdleConcurrent /\ InitIdleSeed

\* one call
Constrain ==
    /\ ct_calls = 0
    /\ \E p \in PitchInputs, s \in ScaleInputs :
          /\ ct_pitch' = p
          /\ ct_scale' = s
          /\ ct_once' = constrain_to_scale(p, s)
    /\ ct_calls' = 1
    /\ UNCHANGED <<ct_twice, prVars, rqVars, qdVars, ccVars, sgVars>>

\* a second call on the first call's result
ConstrainAgain ==
    /\ ct_calls = 1
    /\ ct_twice' = constrain_to_scale(ct_once, ct_scale)
    /\ ct_calls' = 2
    /\ UNCHANGED <<ct_pitch, ct_scale, ct_once, prVars, rqVars, qdVars, ccVars, sgVars>>

NextScale == Constrain \/ ConstrainAgain

SpecScale == InitScale /\ [][NextScale]_vars

-----------------------------------------------------------------------------
(* quantize_duration on every value of a 1/400 s raster *)

\* 0.05 is 20/400 and the tie at half a grid unit, 0.0625, is 25/400
ValueInputs == {Rat(k, 400) : k \in 0..MaxValueSteps}

InitQuantize ==
    /\ \E v \in ValueInputs : qd_value = v
    /\ qd_calls = 0
    /\ qd_quantized = RInt(0)
    /\ InitIdleScale
    /\ InitIdlePair
    /\ InitIdleRequest
    /\ InitIdleConcurrent
    /\ InitIdleSeed

\* one call with the default grid
Quantize ==
    /\ qd_calls = 0
    /\ qd_quantized' = quantize_duration(qd_value, Rat(1, 8))
    /\ qd_calls' = 1
    /\ UNCHANGED <<qd_value, ctVars, prVars, rqVars, ccVars, sgVars>>

NextQuantize == Quantize

SpecQuantize == InitQuantize /\ [][NextQuantize]_vars

-----------------------------------------------------------------------------
(* generate_smart_seed on every genre and every length up to MaxSeqLength *)

InitSeed ==
    /\ sg_pc = "call"
    /\ \E genre \in GenreInputs, seq_length \in (0 - 1)..MaxSeqLength,
          cfg \in ConfigInputs :
          sg_args = [genre |-> genre, seq_length |-> seq_length,
                     vocab_size |-> cfg.vocab_size, max_step |-> cfg.max_step,
                     max_duration |-> cfg.max_duration]
    /\ sg_seed = <<>>
    /\ InitIdleScale /\ InitIdleQuantize /\ InitIdlePair /\ InitIdleRequest
    /\ InitIdleConcurrent

\* the call returns the seed
GenerateSeed ==
    /\ sg_pc = "call"
    /\ sg_seed' = generate_smart_seed(sg_args.genre, sg_args.seq_length,
                                      sg_args.vocab_size, sg_args.max_step,
                                      sg_args.max_duration)
    /\ sg_pc' = "returned"
    /\ UNCHANGED <<sg_args, ctVars, prVars, rqVars, qdVars, ccVars>>

NextSeed == GenerateSeed

SpecSeed == InitSeed /\ [][NextSeed]_vars

-----------------------------------------------------------------------------
(* Requests in the worker threads: generate_melody is a plain `def` endpoint, *)
(* so the server runs calls side by side, and every np.random draw of every  *)
(* call reads and advances the one process-wide generator                     *)

Threads == 1..2

ConcurrentGenres == {"pop", "jazz"}

\* the states numpy's generator can be in
RandomStates == 0..15

\* _generate_demo_melody run from locals d to its return, alone on a generator
\* in state s
RECURSIVE DemoRun(_, _, _, _)
DemoRun(d, genre, n, s) ==
    IF d.i >= n THEN d.notes
    ELSE LET next == DemoIteration(d, genre, s)
         IN  DemoRun(next.demo, genre, n, next.np_random)

InitConcurrent ==
    /\ \E genres \in [Threads -> ConcurrentGenres],
          counts \in [Threads -> 1..MaxConcurrentNotes] :
          cc_req = [t \in Threads |->
                      [pc |-> "idle", genre |-> genres[t], num_notes |-> counts[t],
                       demo |-> <<>>, started |-> 0]]
    /\ cc_classify = "call"
    /\ InitIdleRequest
    /\ InitIdleScale
    /\ InitIdleQuantize
    /\ InitIdlePair
    /\ InitIdleSeed

\* a thread takes a request and, with no model loaded, enters
\* _generate_demo_melody
ConcurrentCall ==
    /\ \E t \in Threads :
          /\ cc_req[t].pc = "idle"
          /\ cc_req' = [cc_req EXCEPT ![t].pc = "demo",
                                      ![t].demo = DemoStart(cc_req[t].genre),
                                      ![t].started = np_random]
    /\ UNCHANGED <<cc_classify, np_random, rqLocals, ctVars, qdVars, prVars, sgVars>>

\* one loop pass of _generate_demo_melody in a thread
ConcurrentDemoNote ==
    /\ \E t \in Threads :
          /\ cc_req[t].pc = "demo"
          /\ cc_req[t].demo.i < cc_req[t].num_notes
          /\ LET next == DemoIteration(cc_req[t].demo, cc_req[t].genre, np_random)
             IN  /\ cc_req' = [cc_req EXCEPT ![t].demo = next.demo]
                 /\ np_random' = next.np_random
    /\ UNCHANGED <<cc_classify, rqLocals, ctVars, qdVars, prVars, sgVars>>

\* _generate_demo_melody returns in a thread
ConcurrentDemoReturn ==
    /\ \E t \in Threads :
          /\ cc_req[t].pc = "demo"
          /\ cc_req[t].demo.i >= cc_req[t].num_notes
          /\ cc_req' = [cc_req EXCEPT ![t].pc = "done"]
    /\ UNCHANGED <<cc_classify, np_random, rqLocals, ctVars, qdVars, prVars, sgVars>>

\* ClassificationService._predict_demo in another thread: np.random.seed(None)
\* reseeds the process-wide generator from the system's entropy
ConcurrentReseed ==
    /\ cc_classify = "call"
    /\ cc_classify' = "done"
    /\ \E s \in RandomStates : np_random' = s
    /\ UNCHANGED <<cc_req, rqLocals, ctVars, qdVars, prVars, sgVars>>

NextConcurrent ==
    \/ ConcurrentCall
    \/ ConcurrentDemoNote
    \/ ConcurrentDemoReturn
    \/ ConcurrentReseed

SpecConcurrent == InitConcurrent /\ [][NextConcurrent]_vars

-----------------------------------------------------------------------------
(* Properties of _generate_with_constraints, checked under SpecPair *)

NonDecreasingStarts(ns) ==
    \A k \in 2..Len(ns) : RLe(ns[k - 1].start, ns[k].start)

\* C1: when _generate_with_constraints returns (no call raised), it returns
\* exactly total_notes notes, each note starts no earlier than the note before
\* it, and every note ends no earlier than it starts.
C1_CountOrderAndSpan ==
    pr_pc = "returned" =>
        \A r \in 1..2 :
            LET ns == pr_run[r].generated_notes
            IN  /\ Len(ns) = pr_args.total_notes
                /\ NonDecreasingStarts(ns)
                /\ \A k \in 1..Len(ns) : RLe(ns[k].start, ns[k].end)

\* a run at tempo <= 0 has returned three notes for three different predictions
C1_Witness ==
    /\ pr_pc = "returned"
    /\ pr_args.total_notes = 3
    /\ pr_tempo[1] <= 0
    /\ Len(pr_run[1].generated_notes) = 3
    /\ pr_run[1].generated_notes[1].step # pr_run[1].generated_notes[2].step
    /\ pr_run[1].generated_notes[2].step # pr_run[1].generated_notes[3].step

\* C2: the window handed to the Oracle does not depend on tempo: two runs with
\* the same seed, genre, temperature and raw predictions but different tempos
\* hold the same window before every call.
C2_WindowIndependentOfTempo ==
    pr_pc \in {"loop", "returned", "raised"} =>
        pr_run[1].input_notes = pr_run[2].input_notes

\* at tempo 120 and at tempo 240 the prediction (64, 0.5, 0.4) has been fed back
\* as (64 / vocab_size, 0.5 / max_step, 0.375 / max_duration)
C2_Witness ==
    /\ pr_pc = "loop"
    /\ pr_tempo = <<120, 240>>
    /\ pr_run[1].i = 2
    /\ \A r \in 1..2 :
          pr_run[r].input_notes[SEQ_LENGTH] =
              <<Rat(64, pr_args.cfg.vocab_size),
                RDiv(Rat(1, 2), pr_args.cfg.max_step),
                RDiv(Rat(3, 8), pr_args.cfg.max_duration)>>

\* the quantized, floored step and duration of note k of a run, read back from
\* the window (total_notes <= SEQ_LENGTH: every note is still in it)
QuantizedOf(g, k, field) ==
    RMul(g.input_notes[SEQ_LENGTH - Len(g.generated_notes) + k][field],
         IF field = 2 THEN pr_args.cfg.max_step ELSE pr_args.cfg.max_duration)

\* C3: every emitted step and duration is the quantized value times
\* 120 / max(tempo, 1); so for one prediction trace, a run at twice the
\* (floored) tempo emits half the step, duration, start and end of every note.
C3_TempoScalesEmittedTimes ==
    pr_pc \in {"loop", "returned", "raised"} =>
        /\ \A r \in 1..2 :
              \A k \in 1..Len(pr_run[r].generated_notes) :
                 LET note == pr_run[r].generated_notes[k]
                     tempo_scale == Rat(120, Max2(pr_tempo[r], 1))
                 IN  /\ note.step = RMul(QuantizedOf(pr_run[r], k, 2), tempo_scale)
                     /\ note.duration = RMul(QuantizedOf(pr_run[r], k, 3), tempo_scale)
        /\ Max2(pr_tempo[2], 1) = 2 * Max2(pr_tempo[1], 1) =>
              \A k \in 1..Len(pr_run[1].generated_notes) :
                 LET slow == pr_run[1].generated_notes[k]
                     fast == pr_run[2].generated_notes[k]
                 IN  /\ slow.step = RMul(RInt(2), fast.step)
                     /\ slow.duration = RMul(RInt(2), fast.duration)
                     /\ slow.start = RMul(RInt(2), fast.start)
                     /\ slow.end = RMul(RInt(2), fast.end)

\* tempo 120 against tempo 240: the first note's step is 0.5 s against 0.25 s
C3_Witness ==
    /\ pr_pc = "returned"
    /\ pr_tempo = <<120, 240>>
    /\ pr_args.total_notes = 3
    /\ pr_run[1].generated_notes[1].step = Rat(1, 2)
    /\ pr_run[2].generated_notes[1].step = Rat(1, 4)
    /\ pr_run[2].generated_notes[3].start # pr_run[1].generated_notes[3].start

-----------------------------------------------------------------------------
(* Properties of generate_melody, checked under Spec *)

FallbackShape == {"pitch", "step", "duration", "start_time"}

ModelShape == {"pitch", "start", "end", "step", "duration"}

AllOfShape(ns, shape) == \A k \in 1..Len(ns) : DOMAIN ns[k] = shape

AfterNotes == {"create_audio", "melody", "bass", "drums", "write", "midi_returned",
               "return", "done"}

\* C4: when the Oracle raises at call k, the exception is caught once, the
\* Oracle is not called again, none of the k notes the model produced is kept,
\* and the note list is a whole demo sequence of num_notes fallback notes.
C4_OracleFailureFallsBackWhole ==
    /\ trace.caught <= 1
    /\ trace.raise_at >= 0 =>
          /\ trace.caught = 1
          /\ trace.oracle_calls = trace.raise_at + 1
          /\ pc # "generate"
          /\ DOMAIN gen = {}
          /\ pc = "demo" =>
                /\ Len(demo.notes) = demo.i
                /\ AllOfShape(demo.notes, FallbackShape)
          /\ pc \in AfterNotes =>
                /\ Len(notes) = num_notes
                /\ AllOfShape(notes, FallbackShape)
          /\ pc = "done" => result.notes = notes

\* the Oracle raised at its fourth call and six fallback notes were returned
C4_Witness ==
    /\ pc = "done"
    /\ trace.raise_at = 3
    /\ trace.caught = 1
    /\ Len(result.notes) = 6

ResultKeys == {"audio_url", "notes", "tempo", "genre", "bars"}

\* some step of the request can be taken
CanStep ==
    \/ pc \in {"call", "create_audio", "melody", "bass", "drums", "write",
               "midi_returned", "return"}
    \/ pc = "generate" /\ (gen.i < num_notes \/ gen.i >= num_notes)
    \/ pc = "demo" /\ (demo.i < num_notes \/ demo.i >= num_notes)

\* a bound on the steps the request has left
StepsLeft ==
    LET left(i) == Max2(num_notes - i, 0)
    IN  CASE pc = "call"          -> 12 + 2 * Max2(6 * args.bars, 0)
          [] pc = "generate"      -> 11 + Max2(num_notes, 0) + left(gen.i)
          [] pc = "demo"          -> 10 + left(demo.i)
          [] pc = "create_audio"  -> 8
          [] pc = "melody"        -> 7
          [] pc = "bass"          -> 6
          [] pc = "drums"         -> 5
          [] pc = "write"         -> 4
          [] pc = "midi_returned" -> 3
          [] pc = "return"        -> 2
          [] pc = "done"          -> 1
          [] OTHER                -> 0

\* C5: generate_melody never lets an exception out and always returns a
\* result: no request reaches "failed", a request that has not returned can
\* take a step, every step brings the return nearer, and a request that has
\* returned holds the result record.
C5_NeverPropagates ==
    /\ [](pc # "failed")
    /\ [](pc # "done" => CanStep)
    /\ [](pc = "done" => DOMAIN result = ResultKeys)
    /\ [][StepsLeft' < StepsLeft]_vars

\* tempo 0, an unknown genre and an Oracle that raised at its last call
C5_Witness ==
    /\ pc = "done"
    /\ args.tempo = 0
    /\ args.genre = "metal"
    /\ trace.raise_at = 5
    /\ DOMAIN result = ResultKeys

LibraryErrors == {"create_audio", "melody", "bass", "drums", "write"}

\* C6: in fallback mode with at least one note and no error of the MIDI
\* library, the returned audio_url is not empty and its melody track holds the
\* fallback notes' pitches.
C6_FallbackNotesAreComposed ==
    (/\ pc = "done"
     /\ DOMAIN demo # {}
     /\ Len(result.notes) >= 1
     /\ trace.midi_error \notin LibraryErrors) =>
        /\ result.audio_url # <<>>
        /\ LET melody == result.audio_url[2].instruments[1].notes
           IN  /\ Len(melody) = Len(result.notes)
               /\ \A k \in 1..Len(melody) : melody[k].pitch = result.notes[k].pitch

\* C7: an error in any step of the composer makes notes_to_midi_base64 return
\* the empty payload without raising, and generate_melody returns the note list
\* its generator produced, the tempo, genre and bars it was given, and an empty
\* audio_url.
C7_CompositionErrorGivesEmptyAudio ==
    trace.midi_error # "none" =>
        /\ pc \in {"midi_returned", "return", "done"}
        /\ midi_base64 = [raised |-> FALSE, value |-> <<>>]
        /\ pc \in {"return", "done"} => audio_url = <<>>
        /\ pc = "done" =>
              result = [audio_url |-> <<>>,
                        notes     |-> IF DOMAIN demo # {} THEN demo.notes
                                      ELSE gen.generated_notes,
                        tempo     |-> args.tempo,
                        genre     |-> args.genre,
                        bars      |-> args.bars]

\* the drum step failed on six model-generated notes
C7_Witness ==
    /\ pc = "done"
    /\ trace.midi_error = "drums"
    /\ Len(result.notes) = 6
    /\ AllOfShape(result.notes, ModelShape)
    /\ result.audio_url = <<>>

\* C8: with no model configured the request goes to the demo generator, the
\* Oracle is never called and no exception is raised or caught.
C8_NoModelRoutesToFallback ==
    service.model = "None" =>
        /\ pc \notin {"generate", "failed"}
        /\ DOMAIN gen = {}
        /\ trace.oracle_calls = 0
        /\ trace.caught = 0
        /\ trace.raise_at < 0
        /\ pc # "call" => DOMAIN demo # {}
        /\ pc \in AfterNotes =>
              /\ notes = demo.notes
              /\ Len(notes) = Max2(num_notes, 0)
              /\ AllOfShape(notes, FallbackShape)

\* a request without a model has returned six fallback notes
C8_Witness ==
    /\ pc = "done"
    /\ service.model = "None"
    /\ Len(result.notes) = 6
    /\ AllOfShape(result.notes, FallbackShape)

-----------------------------------------------------------------------------
(* Properties of constrain_to_scale, checked under SpecScale *)

\* C9: for every pitch, in 0..127 or not, and every non-empty scale, the
\* constrained pitch's class is a member of the scale.
C9_ResultInScale_AllPitches ==
    ct_calls >= 1 => (ct_once % 12) \in Range(ct_scale)

\* C10: constraining a constrained pitch changes nothing, for every pitch and
\* every scale.
C10_Idempotent_AllInputs ==
    ct_calls = 2 => ct_twice = ct_once

-----------------------------------------------------------------------------
(* Properties of quantize_duration, checked under SpecQuantize *)

\* C11: for v >= 0 and grid 0.125 the quantized value is 0 or a positive whole
\* number of grid units, and it is 0 only when v <= 0.05: a value above 0.05
\* that rounds to zero grid units becomes one grid unit.
C11_ZeroOrGridMultiple ==
    qd_calls = 1 =>
        LET units == RDiv(qd_quantized, Rat(1, 8))
        IN  /\ units.d = 1
            /\ units.n >= 0
            /\ units.n = 0 => RLe(qd_value, Rat(1, 20))
            /\ (RLt(Rat(1, 20), qd_value) /\ RLe(qd_value, Rat(1, 16))) =>
                  qd_quantized = Rat(1, 8)

\* the tie 0.0625, half a grid unit, has been quantized to 0.125
C11_Witness ==
    /\ qd_calls = 1
    /\ qd_value = Rat(1, 16)
    /\ qd_quantized = Rat(1, 8)

-----------------------------------------------------------------------------
(* Properties of the context window, checked under SpecLong and SpecPair *)

PairStarted == pr_pc \in {"loop", "returned", "raised"}

\* C12: the window has exactly SEQ_LENGTH entries whenever the Oracle is called
\* (from the seed on), and every push drops exactly the oldest entry and appends
\* exactly one.
C12_WindowLengthConstant ==
    /\ [](PairStarted =>
             \A r \in 1..2 : Len(pr_run[r].input_notes) = SEQ_LENGTH)
    /\ [][\A r \in 1..2 :
             pr_run'[r].i = pr_run[r].i + 1 =>
                /\ Len(pr_run'[r].input_notes) = Len(pr_run[r].input_notes)
                /\ SubSeq(pr_run'[r].input_notes, 1, SEQ_LENGTH - 1) =
                      Tail(pr_run[r].input_notes)]_vars

\* SEQ_LENGTH + 1 pushes have been made and the window still has SEQ_LENGTH entries
C12_Witness ==
    /\ pr_pc = "loop"
    /\ pr_run[1].i = SEQ_LENGTH + 1
    /\ Len(pr_run[1].input_notes) = SEQ_LENGTH

\* the window entry of an emitted note: its pitch, and its step and duration with
\* the tempo scale taken out again, normalized
EntryOf(note, tempo, cfg) ==
    <<Rat(note.pitch, cfg.vocab_size),
      RDiv(RDiv(note.step, Rat(120, Max2(tempo, 1))), cfg.max_step),
      RDiv(RDiv(note.duration, Rat(120, Max2(tempo, 1))), cfg.max_duration)>>

\* C19: before Oracle call k the window is the last max(SEQ_LENGTH - k, 0) seed
\* entries in their order, followed by the entries of the last
\* min(k, SEQ_LENGTH) generated notes in generation order; from SEQ_LENGTH
\* pushes on, no seed entry is left.
C19_WindowIsFifo ==
    PairStarted =>
        \A r \in 1..2 :
            LET g      == pr_run[r]
                k      == g.i
                seed   == generate_smart_seed(pr_args.genre, SEQ_LENGTH,
                                              pr_args.cfg.vocab_size,
                                              pr_args.cfg.max_step,
                                              pr_args.cfg.max_duration)
                kept   == Max2(SEQ_LENGTH - k, 0)
                recent == Min2(k, SEQ_LENGTH)
            IN  /\ Len(g.generated_notes) = k
                /\ \A j \in 1..kept :
                      g.input_notes[j] = seed[SEQ_LENGTH - kept + j]
                /\ \A j \in 1..recent :
                      g.input_notes[kept + j] =
                          EntryOf(g.generated_notes[k - recent + j], pr_tempo[r],
                                  pr_args.cfg)

\* after SEQ_LENGTH + 1 calls the oldest entry is the second note's, and the
\* window holds entries that differ
C19_Witness ==
    /\ pr_pc = "loop"
    /\ pr_run[1].i = SEQ_LENGTH + 1
    /\ pr_run[1].input_notes[1] =
          EntryOf(pr_run[1].generated_notes[2], pr_tempo[1], pr_args.cfg)
    /\ pr_run[1].input_notes[1] # pr_run[1].input_notes[2]

\* C17: with genre 'pop' and a model that always returns (64, 0.5, 0.4), note i
\* (from 0) has pitch 64, start (i + 1) * 0.5 * tempo_scale and end
\* start + 0.375 * tempo_scale.
C17_ConstantOracleScenario ==
    (PairStarted /\ Lower(pr_args.genre) = "pop" /\ pr_args.oracle = ConstantOracle) =>
        \A r \in 1..2 :
            \A k \in 1..Len(pr_run[r].generated_notes) :
                LET note        == pr_run[r].generated_notes[k]
                    tempo_scale == Rat(120, Max2(pr_tempo[r], 1))
                    start       == RMul(RMul(RInt(k), Rat(1, 2)), tempo_scale)
                IN  /\ note.pitch = 64
                    /\ note.start = start
                    /\ note.end = RAdd(start, RMul(Rat(3, 8), tempo_scale))

\* scenario A and scenario B: the first note is 0.5 .. 0.875 at tempo 120 and
\* 0.25 .. 0.4375 at tempo 240
C17_Witness ==
    /\ pr_pc = "returned"
    /\ pr_args.genre = "pop"
    /\ pr_args.oracle = ConstantOracle
    /\ pr_tempo = <<120, 240>>
    /\ pr_run[1].generated_notes[1].start = Rat(1, 2)
    /\ pr_run[1].generated_notes[1].end = Rat(7, 8)
    /\ pr_run[2].generated_notes[1].start = Rat(1, 4)
    /\ pr_run[2].generated_notes[1].end = Rat(7, 16)

\* C20: the entry pushed for a note is (pitch' / vocab_size, step' / max_step,
\* duration' / max_duration): pitch' is the emitted note's pitch and its class is
\* in the genre's scale, step' and duration' are whole numbers of 0.125 that are
\* at least 0.125, and the emitted step and duration are step' and duration'
\* times the tempo scale.
C20_PushedEntryIsConstrainedAndFloored ==
    PairStarted =>
        \A r \in 1..2 :
            pr_run[r].i >= 1 =>
                LET entry       == pr_run[r].input_notes[SEQ_LENGTH]
                    note        == pr_run[r].generated_notes[pr_run[r].i]
                    tempo_scale == Rat(120, Max2(pr_tempo[r], 1))
                    step        == RMul(entry[2], pr_args.cfg.max_step)
                    duration    == RMul(entry[3], pr_args.cfg.max_duration)
                    step_units  == RDiv(step, Rat(1, 8))
                    dur_units   == RDiv(duration, Rat(1, 8))
                IN  /\ entry[1] = Rat(note.pitch, pr_args.cfg.vocab_size)
                    /\ (note.pitch % 12) \in Range(get_scale_for_genre(pr_args.genre))
                    /\ step_units.d = 1 /\ step_units.n >= 1
                    /\ dur_units.d = 1 /\ dur_units.n >= 1
                    /\ note.step = RMul(step, tempo_scale)
                    /\ note.duration = RMul(duration, tempo_scale)

\* the prediction (61, 0.0625, 0) in a jazz run: pitch 61 was moved to 60, the
\* step came from the tie rule and the duration from the floor
C20_Witness ==
    /\ pr_pc = "loop"
    /\ pr_args.genre = "Jazz"
    /\ pr_run[1].i = 2
    /\ pr_run[1].generated_notes[2].pitch = 60
    /\ pr_run[1].input_notes[SEQ_LENGTH] =
          <<Rat(60, pr_args.cfg.vocab_size),
            RDiv(Rat(1, 8), pr_args.cfg.max_step),
            RDiv(Rat(1, 8), pr_args.cfg.max_duration)>>

-----------------------------------------------------------------------------
(* Properties of the demo generator and the composer, checked under Spec *)

\* C14: in every sequence of _generate_demo_melody each pitch is a member of
\* the genre's scale within 5 semitones of the pitch before it (the first one
\* of the scale's middle element), or any member when none is that near.
C14_DemoPitchesStayNear ==
    DOMAIN demo # {} =>
        LET scale == demo_config(args.genre).scale
        IN  \A k \in 1..Len(demo.notes) :
               LET prev == IF k = 1 THEN scale[(Len(scale) \div 2) + 1]
                           ELSE demo.notes[k - 1].pitch
                   near == {q \in Range(scale) : Abs(q - prev) <= 5}
               IN  /\ demo.notes[k].pitch \in Range(scale)
                   /\ near # {} => demo.notes[k].pitch \in near

\* six classical demo notes that moved away from the middle element 69
C14_Witness ==
    /\ pc = "done"
    /\ DOMAIN demo # {}
    /\ args.genre = "classical"
    /\ Len(demo.notes) = 6
    /\ \E k \in 1..6 : Abs(demo.notes[k].pitch - 69) > 5

BarOf(hit, beat) == TruncToInt(RDiv(hit.start, RMul(RInt(4), beat)))

BeatIn(hit, beat) ==
    RDiv(RSub(hit.start, RMul(RInt(4 * BarOf(hit, beat)), beat)), beat)

-----------------------------------------------------------------------------
(* The genre tables, checked under Spec *)

\* the genre a string names when case is ignored
GenreNamed(genre) ==
    CASE genre \in {"pop", "Pop", "POP"}    -> "pop"
      [] genre \in {"rock", "Rock", "ROCK"} -> "rock"
      [] genre \in {"jazz", "Jazz", "JAZZ"} -> "jazz"
      [] genre \in {"classical", "Classical", "CLASSICAL"} -> "classical"
      [] OTHER -> "unknown"

\* C18: an unknown genre raises nothing and gets the defaults of every genre
\* table: scale 'major' in the generation loop, start pitch 60 in the seed,
\* program 0 in the composer and the 'pop' template in the demo generator; a
\* known genre is found in all four whatever its case.
C18_GenreDefaultsAndCase ==
    pc \notin {"idle", "call"} =>
        LET named    == GenreNamed(args.genre)
            scale    == [pop |-> <<0, 2, 4, 5, 7, 9, 11>>, rock |-> <<0, 2, 4, 7, 9>>,
                         jazz |-> <<0, 3, 5, 6, 7, 10>>,
                         classical |-> <<0, 2, 4, 5, 7, 9, 11>>,
                         unknown |-> <<0, 2, 4, 5, 7, 9, 11>>][named]
            start    == [pop |-> 60, rock |-> 57, jazz |-> 63, classical |-> 64,
                         unknown |-> 60][named]
            program  == [pop |-> 0, rock |-> 29, jazz |-> 66, classical |-> 40,
                         unknown |-> 0][named]
            template == genre_configs[IF named = "unknown" THEN "pop" ELSE named]
        IN  /\ pc # "failed"
            /\ (pc = "generate" /\ gen.i = 0) =>
                  gen.input_notes[16][1] = Rat(start, service.vocab_size)
            /\ DOMAIN gen # {} =>
                  \A k \in 1..Len(gen.generated_notes) :
                     gen.generated_notes[k].pitch \in
                        {constrain_to_scale(raw.pitch, scale) : raw \in RequestRawOutputs}
            /\ DOMAIN midi # {} => midi.program = program
            /\ DOMAIN demo # {} =>
                  /\ demo.i = 0 =>
                        demo.prev_pitch = template.scale[(Len(template.scale) \div 2) + 1]
                  /\ \A k \in 1..Len(demo.notes) :
                        /\ demo.notes[k].pitch \in Range(template.scale)
                        /\ \E j \in Range(JitterInputs) :
                              demo.notes[k].step =
                                 Round3(RMul(template.rhythm_pattern[
                                    ((k - 1) % Len(template.rhythm_pattern)) + 1], j))

\* genre 'metal': six notes were generated in the major scale (65 stays 65, as
\* it would not in the pentatonic scale) and the composer plays them with
\* program 0
C18_Witness ==
    /\ pc = "write"
    /\ args.genre = "metal"
    /\ midi.program = 0
    /\ Len(notes) = 6
    /\ \E k \in 1..6 : notes[k].pitch = 65

-----------------------------------------------------------------------------
(* Requests side by side, checked under SpecConcurrent *)

\* C16: every call has its own random stream: the notes a call returns are the
\* notes it makes alone on the generator as it was when the call began,
\* whatever the other threads do meanwhile.
C16_OwnRandomStream ==
    cc_req # <<>> =>
        \A t \in Threads :
            cc_req[t].pc = "done" =>
                cc_req[t].demo.notes =
                    DemoRun(DemoStart(cc_req[t].genre), cc_req[t].genre,
                            cc_req[t].num_notes, cc_req[t].started)

-----------------------------------------------------------------------------
\* C21: the temperature changes only at the end of passes i with i > 0 and
\* i % 16 = 0, to 0.9 if it was above 1.0 and to 1.2 otherwise: calls 0..16
\* use the caller's temperature, calls 17..32 the first adjusted value, and
\* from then on 0.9 and 1.2 alternate every 16 calls; a positive initial
\* temperature keeps every temperature handed to the Oracle positive.
AdjustmentsBefore(i) == IF i = 0 THEN 0 ELSE (i - 1) \div 16

FirstAdjusted(t0) == IF RLt(RInt(1), t0) THEN Rat(9, 10) ELSE Rat(6, 5)

TemperatureAtCall(t0, i) ==
    LET k == AdjustmentsBefore(i)
    IN  IF k = 0 THEN t0
        ELSE IF k % 2 = 1 THEN FirstAdjusted(t0)
        ELSE IF FirstAdjusted(t0) = Rat(9, 10) THEN Rat(6, 5) ELSE Rat(9, 10)

C21_TemperatureSchedule ==
    /\ [](PairStarted =>
            \A r \in 1..2 :
               /\ pr_run[r].temperature =
                     TemperatureAtCall(pr_args.temperature, pr_run[r].i)
               /\ TemperatureOk(pr_args.temperature) =>
                     TemperatureOk(pr_run[r].temperature))
    /\ [][\A r \in 1..2 :
            pr_run'[r].temperature # pr_run[r].temperature =>
               /\ pr_run[r].i > 0
               /\ pr_run[r].i % 16 = 0
               /\ pr_run'[r].temperature =
                     (IF RLt(RInt(1), pr_run[r].temperature)
                      THEN Rat(9, 10) ELSE Rat(6, 5))]_vars

\* call 33 has been made with the second adjusted value
C21_Witness ==
    /\ pr_pc = "loop"
    /\ pr_run[1].i = 2 * 16 + 2
    /\ pr_args.temperature = Rat(11, 10)
    /\ pr_run[1].temperature = Rat(6, 5)
    /\ Len(pr_run[1].generated_notes) = 2 * 16 + 2

-----------------------------------------------------------------------------
\* C22: the accumulator advances to each note's start, not its end: the start
\* of note i is the sum of the scaled steps of notes 0..i whatever the
\* durations are, so consecutive starts are at least 0.125 * tempo_scale apart
\* and every note lasts at least 0.125 * tempo_scale, whatever the Oracle
\* returns (step or duration 0 included).
RECURSIVE StepSum(_, _)
StepSum(generated, k) ==
    IF k = 0 THEN RInt(0) ELSE RAdd(StepSum(generated, k - 1), generated[k].step)

C22_StartsAreStepSums ==
    PairStarted =>
       \A r \in 1..2 :
          LET generated == pr_run[r].generated_notes
              least     == RMul(Rat(1, 8), tempo_scale_of(pr_tempo[r]))
          IN  /\ pr_run[r].prev_start = StepSum(generated, Len(generated))
              /\ \A k \in 1..Len(generated) :
                    /\ generated[k].start = StepSum(generated, k)
                    /\ RLe(least, RSub(generated[k].end, generated[k].start))
                    /\ RLe(least, generated[k].step)
                    /\ k > 1 => RLe(least, RSub(generated[k].start,
                                                generated[k - 1].start))

\* the Oracle returned step 0 and then duration 0; the second note starts
\* before the first one ends
C22_Witness ==
    /\ pr_pc = "returned"
    /\ Len(pr_run[1].generated_notes) >= 2
    /\ pr_run[1].generated_notes[1].step =
          RMul(Rat(1, 8), tempo_scale_of(pr_tempo[1]))
    /\ pr_run[1].generated_notes[2].duration =
          RMul(Rat(1, 8), tempo_scale_of(pr_tempo[1]))
    /\ RLt(pr_run[1].generated_notes[2].start, pr_run[1].generated_notes[1].end)

-----------------------------------------------------------------------------
\* C23: a pitch p in 0..127 whose class is not in the scale becomes
\* (p // 12) * 12 + s, with s the first scale member in declared order at the
\* least linear distance |p mod 12 - s|, which is in p's octave; a pitch whose
\* class is in the scale is returned as it is, and a pitch outside 0..127
\* gives 60.
FirstNearest(note, scale) ==
    LET k == CHOOSE k \in DOMAIN scale :
                /\ \A j \in DOMAIN scale :
                      Abs(note - scale[k]) <= Abs(note - scale[j])
                /\ \A j \in 1..(k - 1) :
                      Abs(note - scale[j]) > Abs(note - scale[k])
    IN  scale[k]

C23_NearestInSameOctave ==
    ct_calls >= 1 =>
       IF ct_pitch < 0 \/ ct_pitch > 127 THEN ct_once = 60
       ELSE IF (ct_pitch % 12) \in Range(ct_scale) THEN ct_once = ct_pitch
       ELSE /\ ct_once = (ct_pitch \div 12) * 12
                            + FirstNearest(ct_pitch % 12, ct_scale)
            /\ ct_once \div 12 = ct_pitch \div 12

\* C sharp is as far from C as from D: the earlier member, C, is taken
C23_Witness ==
    /\ ct_calls = 1
    /\ ct_pitch = 61
    /\ ct_scale = SCALES.major
    /\ ct_once = 60

-----------------------------------------------------------------------------
\* C24: generate_smart_seed returns exactly seq_length entries for every
\* seq_length >= 0: the entries at index < 15 are the zero triple and the entry
\* at index i >= 15 is ((base + (i - 15) % 5) / vocab_size, 0.5 / max_step,
\* 0.4 / max_duration), base being the genre's start pitch (60 for an unknown
\* genre); a seed of at most 15 entries is all zero triples.
BasePitch(genre) ==
    CASE GenreNamed(genre) = "pop"       -> 60
      [] GenreNamed(genre) = "rock"      -> 57
      [] GenreNamed(genre) = "jazz"      -> 63
      [] GenreNamed(genre) = "classical" -> 64
      [] OTHER                           -> 60

C24_SeedShape ==
    (sg_pc = "returned" /\ sg_args.seq_length >= 0) =>
       /\ Len(sg_seed) = sg_args.seq_length
       /\ \A k \in 1..Len(sg_seed) :
             LET i == k - 1
             IN  IF i < 15
                 THEN sg_seed[k] = <<RInt(0), RInt(0), RInt(0)>>
                 ELSE sg_seed[k] =
                        <<Rat(BasePitch(sg_args.genre) + ((i - 15) % 5),
                              sg_args.vocab_size),
                          RDiv(Rat(1, 2), sg_args.max_step),
                          RDiv(Rat(2, 5), sg_args.max_duration)>>
       /\ sg_args.seq_length <= 15 =>
             \A k \in 1..Len(sg_seed) : sg_seed[k] = <<RInt(0), RInt(0), RInt(0)>>

\* a seed long enough for the motif to start again from the base pitch
C24_Witness ==
    /\ sg_pc = "returned"
    /\ sg_args.genre = "Jazz"
    /\ sg_args.seq_length = 15 + 5 + 1
    /\ sg_seed[15] = <<RInt(0), RInt(0), RInt(0)>>
    /\ sg_seed[16][1] = Rat(63, sg_args.vocab_size)
    /\ sg_seed[20][1] = Rat(67, sg_args.vocab_size)
    /\ sg_seed[21][1] = Rat(63, sg_args.vocab_size)

-----------------------------------------------------------------------------
(* Properties of the composed score, checked under SpecCompose *)

\* the least n with n * seconds_per_bar >= total_duration
BarsNeeded(total_duration, seconds_per_bar) ==
    LET q == RDiv(total_duration, seconds_per_bar)
    IN  (q.n + q.d - 1) \div q.d

\* the bars a track arranges: one first-beat note (the bass's long note, the
\* drums' kick) opens each
BassBars(track, beat) ==
    Cardinality({k \in 1..Len(track) : track[k].velocity = 90})

DrumBars(track, beat) ==
    Cardinality({k \in 1..Len(track) :
                    track[k].pitch = 36 /\ BeatIn(track[k], beat) = RInt(0)})

\* C25: for every melody total duration and every tempo the bass loop and the
\* drum loop come to an end, and both arrange the least number n of bars with
\* n * seconds_per_bar >= total duration: none, and so empty bass and drum
\* tracks, under an empty melody.
C25_LoopsEndWithTheSameBars ==
    /\ [](DOMAIN midi # {} => RLt(RInt(0), midi.seconds_per_beat))
    /\ []((DOMAIN midi # {} /\ Len(midi.instruments) >= 2) =>
            LET bars == BarsNeeded(midi.total_duration,
                                   RMul(RInt(4), midi.seconds_per_beat))
            IN  /\ BassBars(midi.instruments[2].notes, midi.seconds_per_beat) = bars
                /\ Len(midi.instruments) >= 3 =>
                      DrumBars(midi.instruments[3].notes, midi.seconds_per_beat) = bars
                /\ notes = <<>> =>
                      /\ bars = 0
                      /\ midi.instruments[2].notes = <<>>
                      /\ Len(midi.instruments) >= 3 =>
                            midi.instruments[3].notes = <<>>)
    /\ [][(pc = "bass" => pc' \in {"drums", "midi_returned"})
           /\ (pc = "drums" => pc' \in {"write", "midi_returned"})]_vars

\* a melody that ends exactly on the first bar line: one bar in both tracks
C25_Witness ==
    /\ pc = "write"
    /\ args.tempo = 0 - 60
    /\ midi.total_duration = RMul(RInt(4), midi.seconds_per_beat)
    /\ BassBars(midi.instruments[2].notes, midi.seconds_per_beat) = 1
    /\ DrumBars(midi.instruments[3].notes, midi.seconds_per_beat) = 1

\* C26: every bass note and every drum hit of a composed score starts strictly
\* before the melody's total duration (the greatest end of a melody note), in
\* groove bars and in fill bars alike.
C26_AccompanimentStartsBeforeEnd ==
    (pc = "write" /\ DOMAIN midi # {}) =>
       \A t \in 2..3 :
          \A k \in 1..Len(midi.instruments[t].notes) :
             RLt(midi.instruments[t].notes[k].start, midi.total_duration)

\* the bars the drum loop enters, and what a drum track holds in bar b
BarsEntered(total, beat) ==
    {b \in 0..TruncToInt(RDiv(total, RMul(RInt(4), beat))) :
        RLt(RMul(RInt(4 * b), beat), total)}

HitsAt(track, beat, b, pitches) ==
    {k \in 1..Len(track) : /\ BarOf(track[k], beat) = b
                           /\ track[k].pitch \in pitches}

IsGhost(hit, beat) ==
    /\ hit.pitch = 38
    /\ hit.velocity = 50
    /\ RSub(hit.end, hit.start) = Rat(1, 20)
    /\ BeatIn(hit, beat) = Rat(15, 4)

Ghosts(track, beat, b) ==
    {k \in HitsAt(track, beat, b, {38}) : track[k].velocity = 50}

\* a groove bar that ends by total_duration holds the whole groove: eight
\* hi-hats half a beat apart, kicks on 0, 2 and 2.5, snares on 1 and 3
WholeGroove(track, beat, b) ==
    LET at(k)  == BeatIn(track[k], beat)
        hats   == HitsAt(track, beat, b, {42})
        kicks  == HitsAt(track, beat, b, {36})
        snares == HitsAt(track, beat, b, {38}) \ Ghosts(track, beat, b)
    IN  /\ Cardinality(hats) = 8
        /\ {at(k) : k \in hats} = {Rat(i, 2) : i \in 0..7}
        /\ Cardinality(kicks) = 3
        /\ {at(k) : k \in kicks} = {RInt(0), RInt(2), Rat(5, 2)}
        /\ Cardinality(snares) = 2
        /\ {at(k) : k \in snares} = {RInt(1), RInt(3)}

\* C27: a ghost snare (pitch 38, velocity 50, 0.05 s long, at beat 3.75) is in
\* every odd-indexed bar whose ghost time is before total duration and in no
\* even-indexed bar; each groove bar that total duration does not cut has
\* exactly 8 hi-hats half a beat apart, kicks on beats 0, 2 and 2.5 and snares
\* on beats 1 and 3.
C27_GhostInEveryOddBar ==
    (pc = "write" /\ DOMAIN midi # {}) =>
       LET drums == midi.instruments[3].notes
           beat  == midi.seconds_per_beat
           total == midi.total_duration
       IN  \A b \in BarsEntered(total, beat) :
              /\ (b % 2 = 1 /\ RLt(RMul(Rat(4 * 4 * b + 15, 4), beat), total)) =>
                    \E k \in Ghosts(drums, beat, b) : IsGhost(drums[k], beat)
              /\ b % 2 = 0 => Ghosts(drums, beat, b) = {}
              /\ (~is_fill_bar(b) /\ RLe(RMul(RInt(4 * (b + 1)), beat), total)) =>
                    WholeGroove(drums, beat, b)

\* C27 as it holds: the ghost snare is in every odd-indexed groove bar (b odd
\* and (b + 1) % 4 # 0) whose ghost time is before total duration, once, and
\* in no even-indexed bar and no fill bar; each groove bar that total duration
\* does not cut has exactly 8 hi-hats half a beat apart, kicks on beats 0, 2
\* and 2.5 and snares on beats 1 and 3.
C27_GhostInOddGrooveBars ==
    (pc = "write" /\ DOMAIN midi # {}) =>
       LET drums == midi.instruments[3].notes
           beat  == midi.seconds_per_beat
           total == midi.total_duration
       IN  \A b \in BarsEntered(total, beat) :
              /\ (b % 2 = 1 /\ (b + 1) % 4 # 0
                    /\ RLt(RMul(Rat(4 * 4 * b + 15, 4), beat), total)) =>
                    /\ Cardinality(Ghosts(drums, beat, b)) = 1
                    /\ \A k \in Ghosts(drums, beat, b) : IsGhost(drums[k], beat)
              /\ (b % 2 = 0 \/ (b + 1) % 4 = 0) => Ghosts(drums, beat, b) = {}
              /\ ((b + 1) % 4 # 0 /\ RLe(RMul(RInt(4 * (b + 1)), beat), total)) =>
                    WholeGroove(drums, beat, b)

\* seven bars: ghosts in bars 1 and 5, none in the fill bar 3 although its
\* beat 3.75 is before the end
C27_Witness ==
    /\ pc = "write"
    /\ DOMAIN midi # {}
    /\ 6 \in BarsEntered(midi.total_duration, midi.seconds_per_beat)
    /\ Cardinality(Ghosts(midi.instruments[3].notes, midi.seconds_per_beat, 1)) = 1
    /\ Cardinality(Ghosts(midi.instruments[3].notes, midi.seconds_per_beat, 5)) = 1
    /\ Ghosts(midi.instruments[3].notes, midi.seconds_per_beat, 3) = {}
    /\ WholeGroove(midi.instruments[3].notes, midi.seconds_per_beat, 4)

\* where in its 4-beat bar a note starts, in beats
BeatPosition(note, beat) ==
    LET beats == RDiv(note.start, beat)
        whole == TruncToInt(beats)
    IN  RSub(beats, RInt(whole - (whole % 4)))

\* 15 within 0.1 beat of the bar's first beat, 10 within 0.1 beat of its
\* third beat, 0 elsewhere
AccentAt(pos) ==
    IF RLt(pos, Rat(1, 10)) THEN 15
    ELSE IF RLt(Rat(19, 10), pos) /\ RLt(pos, Rat(21, 10)) THEN 10
    ELSE 0

\* C29: every melody note's velocity in the composed score is 100 + h +
\* accent clamped to [0, 127], with h in -5..5 and the accent 15 within 0.1
\* beat of the bar's first beat, 10 within 0.1 beat of its third beat and 0
\* otherwise; so every velocity is in 95..120.
C29_MelodyVelocity ==
    (DOMAIN midi # {} /\ Len(midi.instruments) >= 1) =>
       LET melody == midi.instruments[1].notes
       IN  /\ Len(melody) = Len(notes)
           /\ \A k \in 1..Len(melody) :
                 LET accent == AccentAt(BeatPosition(melody[k], midi.seconds_per_beat))
                 IN  /\ \E h \in (0 - 5)..5 :
                           melody[k].velocity = Min2(127, Max2(0, 100 + h + accent))
                     /\ melody[k].velocity \in 95..120

\* a note on a bar line, one 0.05 beat before a bar line and one on a third
\* beat
C29_Witness ==
    /\ pc = "bass"
    /\ Len(midi.instruments[1].notes) = 3
    /\ BeatPosition(midi.instruments[1].notes[1], midi.seconds_per_beat) = RInt(0)
    /\ midi.instruments[1].notes[1].velocity \in 110..120
    /\ BeatPosition(midi.instruments[1].notes[2], midi.seconds_per_beat) = Rat(79, 20)
    /\ midi.instruments[1].notes[2].velocity \in 95..105
    /\ BeatPosition(midi.instruments[1].notes[3], midi.seconds_per_beat) = RInt(2)
    /\ midi.instruments[1].notes[3].velocity \in 105..115

-----------------------------------------------------------------------------
(* What a request leaves behind, checked under Spec *)

\* C28: a generate_melody call leaves all shared state as it was: no step of
\* it changes the service's model, vocab_size, max_step or max_duration, the
\* process-wide state the requests share, or the seed array passed into
\* _generate_with_constraints (each push makes a new window); so the next call
\* with the same arguments starts from the same seed window.
C28_SharedStateUnchanged ==
    /\ [][service' = service /\ np_random' = np_random]_vars
    /\ [][pc # "call" => input_seed' = input_seed]_vars
    /\ [](pc \notin {"idle", "call"} =>
            input_seed = generate_smart_seed(args.genre, SEQ_LENGTH, service.vocab_size,
                                             service.max_step, service.max_duration))

=============================================================================
